---- MODULE Spec2Model ----
(***************************************************************************)
(* Model of the peer-flow Postgres connector (connectors/postgres):        *)
(* SyncRecords appends a batch of change records to the raw table and      *)
(* advances the job metadata in one transaction; NormalizeRecords folds    *)
(* the raw rows of the batches (N, S] into the normalized tables and       *)
(* advances normalize_batch_id in one transaction; PullRecords reads the   *)
(* logical replication stream of the source.                               *)
(***************************************************************************)
EXTENDS Integers, Sequences, FiniteSets, TLC

\* ------------------------------------------------------------------ bounds
MaxSyncBatchID == 3   \* SyncRecords is not called again once this id is stored
MaxFailures == 2      \* failures injected in one run of the pull/sync workflow
MaxLSN == 3           \* transactions the source commits in one run
MaxRecords == 2       \* max_records of a pull

\* ------------------------------------------------------------- the records
Null == "null"
Tables == {"t1", "t2"}
Keys == {1}

Items(k, v) == [id |-> k, big |-> v]
EmptyItems == [id |-> 0, big |-> Null]

InsertRecord(t, k, v, cp) ==
  [type |-> "insert", table |-> t, items |-> Items(k, v), olditems |-> EmptyItems,
   toast |-> {}, cp |-> cp]
UpdateRecord(t, k, v, ucols, cp) ==
  [type |-> "update", table |-> t, items |-> Items(k, v), olditems |-> Items(k, Null),
   toast |-> ucols, cp |-> cp]
DeleteRecord(t, k, cp) ==
  [type |-> "delete", table |-> t, items |-> Items(k, Null), olditems |-> EmptyItems,
   toast |-> {}, cp |-> cp]
OtherRecord(t, cp) ==
  [type |-> "other", table |-> t, items |-> EmptyItems, olditems |-> EmptyItems,
   toast |-> {}, cp |-> cp]

RecordBatch(recs, last) == [Records |-> recs, LastCheckPointID |-> last]

\* The batches SyncRecords is called with: empty ones (with and without a
\* checkpoint), an insert, a TOAST-unchanged update with an insert into a
\* second table, insert/update/delete of one key, a record of a type the
\* connector does not know.
Requests ==
  { RecordBatch(<< >>, 0),
    RecordBatch(<< >>, 2),
    RecordBatch(<< InsertRecord("t1", 1, "a", 1) >>, 1),
    RecordBatch(<< UpdateRecord("t1", 1, Null, {"big"}, 2),
                   InsertRecord("t2", 1, "b", 2) >>, 2),
    RecordBatch(<< InsertRecord("t1", 1, "a", 3), UpdateRecord("t1", 1, "b", {}, 3),
                   DeleteRecord("t1", 1, 3) >>, 3),
    RecordBatch(<< InsertRecord("t1", 1, "b", 3), OtherRecord("t1", 3) >>, 3) }

\* ---------------------------------------------------------------- the state
VARIABLES
  meta,           \* the job's row of the mirror jobs table (committed)
  raw,            \* the job's raw table (committed rows, in insertion order)
  dst,            \* the normalized tables (committed): table -> key -> row
  supportsMerge,  \* the destination server is version 15 or later
  s,              \* the SyncRecords call in flight, or the last one
  n,              \* the NormalizeRecords call in flight, or the last one
  normHist,       \* the ranges of the normalizes that committed
  wal,            \* the source: transactions committed so far (the LSN of the last)
  slot,           \* the source: the replication slot of the job
  p,              \* the pull/sync flow of the job: the PullRecords call and its caller
  fails,          \* failures injected so far in the flow
  catalog,        \* the source: the names of its replication slots and publications
  setup,          \* the last SetupReplication call and its outcome
  stream,         \* the changes of the source that the syncs are cut from
  rawTable,       \* the raw table of the job exists at the destination
  c,              \* the SyncFlowCleanup call in flight, or the last one
  txn,            \* the transaction of the transactional operation in flight, or of the last
  h,              \* the operation that records heartbeats, in flight or the last
  tick,           \* the clock: the nanoseconds that can pass between two readings
  q,              \* the CopyStageToDestination call in flight, or the last one
  sf,             \* Snowflake: the stage, the destination table and the QRep metadata
  sq,             \* the Snowflake SyncQRepRecords call in flight, or the last one
  pf,             \* the PullFlowCleanup call in flight, or the last one
  s3              \* S3: the objects of the bucket, and the S3 SyncQRepRecords call

callVars == << sf, sq, pf, s3 >>
opsVars == << rawTable, c, txn, h, tick, q, callVars >>

srcVars == << catalog, setup, stream, opsVars >>
flowVars == << wal, slot, p, fails, catalog, setup, stream, opsVars >>
vars == << meta, raw, dst, supportsMerge, s, n, normHist, wal, slot, p, fails, catalog,
          setup, stream, rawTable, c, txn, h, tick, q, sf, sq, pf, s3 >>

Absent == [present |-> FALSE, big |-> Null]
Row(v) == [present |-> TRUE, big |-> v]

NoRow == [exists |-> FALSE, last_offset |-> 0, sync_batch_id |-> 0, normalize_batch_id |-> 0]

NoResponse == [status |-> "none", First |-> 0, Last |-> 0, Num |-> 0, CurrentSyncBatchID |-> 0]
SyncError == [status |-> "err", First |-> 0, Last |-> 0, Num |-> 0, CurrentSyncBatchID |-> 0]
SyncResponse(first, last, num, id) ==
  [status |-> "ok", First |-> first, Last |-> last, Num |-> num, CurrentSyncBatchID |-> id]

NoNormalizeResponse == [status |-> "none", Done |-> FALSE, StartBatchID |-> 0, EndBatchID |-> 0]
NormalizeError == [status |-> "err", Done |-> FALSE, StartBatchID |-> 0, EndBatchID |-> 0]
NormalizeResponse(start, end) ==
  [status |-> "ok", Done |-> TRUE, StartBatchID |-> start, EndBatchID |-> end]

EmptyTables == [t \in Tables |-> [k \in Keys |-> Absent]]
NoCols == [t \in Tables |-> [has |-> FALSE, toast |-> {}]]

NoTxMeta == [set |-> FALSE, last_offset |-> 0, sync_batch_id |-> 0]

SyncIdle ==
  [pc |-> "done", req |-> RecordBatch(<< >>, 0), syncBatchID |-> 0, records |-> << >>,
   firstCP |-> 0, lastCP |-> 0, txOpened |-> FALSE, txRows |-> << >>, txMeta |-> NoTxMeta,
   resp |-> NoResponse]

NormalizeIdle ==
  [pc |-> "done", syncBatchID |-> 0, normalizeBatchID |-> 0, cols |-> NoCols,
   txOpened |-> FALSE, txDst |-> EmptyTables, rowsAffected |-> 0, txMetaSet |-> FALSE,
   resp |-> NoNormalizeResponse, prev |-> NoNormalizeResponse]

NoLastSyncState == [nil |-> TRUE, Checkpoint |-> 0]
LastSyncState(cp) == [nil |-> FALSE, Checkpoint |-> cp]

\* ------------------------------------------------------------- the names
\* a job name is kept as the sequence of its characters
LowerDigitsUnderscore ==
  {"a", "b", "c", "d", "e", "f", "g", "h", "i", "j", "k", "l", "m", "n", "o", "p", "q",
   "r", "s", "t", "u", "v", "w", "x", "y", "z",
   "0", "1", "2", "3", "4", "5", "6", "7", "8", "9", "_"}

JobNames == { << "j", "_", "1" >>, << "j", "-" >>, << >> }

RECURSIVE String(_)
String(name) == IF name = << >> THEN "" ELSE name[1] \o String(Tail(name))

\* regexp.MustCompile(`^[a-z0-9_]+$`).MatchString(name)
MatchesJobNameRegexp_firstOnly(name) ==
  Len(name) > 0 /\ name[1] \in LowerDigitsUnderscore
MatchesJobNameRegexp(name) ==
  Len(name) > 0 /\ \A i \in 1..Len(name) : name[i] \in LowerDigitsUnderscore

PullRecordsRequest(job, slotOverride, publicationOverride) ==
  [FlowJobName |-> job, OverrideReplicationSlotName |-> slotOverride,
   OverridePublicationName |-> publicationOverride]
SetupReplicationInput(job, slotName, publicationName) ==
  [FlowJobName |-> job, ExistingReplicationSlotName |-> slotName,
   ExistingPublicationName |-> publicationName]

PullRequests ==
  {PullRecordsRequest(j, sl, pb) : j \in JobNames, sl \in {"", "my_slot"}, pb \in {"", "my_pub"}}
SetupRequests ==
  {SetupReplicationInput(j, sl, pb) : j \in JobNames, sl \in {"", "my_slot"},
                                     pb \in {"", "my_pub"}}

\* the request of the flow of the job
FlowRequest == PullRecordsRequest(<< "j", "_", "1" >>, "", "")

\* the names PullRecords works with
PullSlotName_default(req) == "peerflow_slot_" \o String(req.FlowJobName)
PullSlotName(req) ==
  IF req.OverrideReplicationSlotName # ""
  THEN req.OverrideReplicationSlotName
  ELSE "peerflow_slot_" \o String(req.FlowJobName)
PullPublicationName(req) ==
  IF req.OverridePublicationName # ""
  THEN req.OverridePublicationName
  ELSE "peerflow_pub_" \o String(req.FlowJobName)

\* the names SetupReplication works with
SetupSlotName(req) ==
  IF req.ExistingReplicationSlotName # ""
  THEN req.ExistingReplicationSlotName
  ELSE "peerflow_slot_" \o String(req.FlowJobName)
SetupPublicationName_default(req) == "peerflow_pub_" \o String(req.FlowJobName)
SetupPublicationName(req) ==
  IF req.ExistingPublicationName # ""
  THEN req.ExistingPublicationName
  ELSE "peerflow_pub_" \o String(req.FlowJobName)

NoCatalog == [slots |-> {}, pubs |-> {}]
FlowCatalog ==
  [slots |-> {PullSlotName(FlowRequest)}, pubs |-> {PullPublicationName(FlowRequest)}]

checkSlotAndPublication(cat, slotName, publicationName) ==
  [SlotExists |-> slotName \in cat.slots, PublicationExists |-> publicationName \in cat.pubs]

NoError == [kind |-> "none", name |-> ""]
Error(kind, name) == [kind |-> kind, name |-> name]

NoCDCSource == [created |-> FALSE, Slot |-> "", Publication |-> ""]
PostgresCDCSource(slotName, publicationName) ==
  [created |-> TRUE, Slot |-> slotName, Publication |-> publicationName]

NoSetup ==
  [called |-> FALSE, req |-> SetupReplicationInput(<< >>, "", ""), slotName |-> "",
   publicationName |-> "", queried |-> FALSE, err |-> NoError]

\* the staging buffer of the CDC source: the records of the transaction
\* that is being decoded
NoStaging == [open |-> FALSE, records |-> << >>]

FlowIdle ==
  [pc |-> "idle", last |-> NoLastSyncState, clientXLogPos |-> 0,
   batch |-> RecordBatch(<< >>, 0), req |-> PullRecordsRequest(<< >>, "", ""),
   slotName |-> "", publicationName |-> "", cdc |-> NoCDCSource, err |-> NoError,
   staging |-> NoStaging, counted |-> FALSE, monitor |-> FALSE, lsnUpdated |-> FALSE]

\* the source streams the syncs of a chunked run are cut from: insert, update
\* and delete of one key; an insert and an update that leaves the TOAST
\* column unchanged; changes of two tables
Streams ==
  { << InsertRecord("t1", 1, "a", 1), UpdateRecord("t1", 1, "b", {}, 2),
       DeleteRecord("t1", 1, 3) >>,
    << InsertRecord("t1", 1, "a", 1), UpdateRecord("t1", 1, Null, {"big"}, 2) >>,
    << InsertRecord("t1", 1, "a", 1), InsertRecord("t2", 1, "b", 2),
       UpdateRecord("t1", 1, "b", {}, 3) >> }

\* no SyncFlowCleanup call yet
CleanupIdle == [pc |-> "done", calls |-> 0, txOpened |-> FALSE, txDropped |-> FALSE,
                txDeleted |-> FALSE, err |-> FALSE]

\* no transactional operation yet
TxIdle == [op |-> "", pc |-> "done", began |-> FALSE, step |-> 0, tx |-> "none",
           closed |-> FALSE, err |-> FALSE, deferErr |-> "nil", logged |-> FALSE]

\* a QRep config without write mode, and the merge command before it is
\* generated
NoWriteMode == [nil |-> TRUE, WriteType |-> "", UpsertKeyColumns |-> << >>]
NoMergeCommand ==
  [generated |-> FALSE, err |-> FALSE, upsertKeys |-> << >>, partitionKeyCols |-> << >>,
   quotedWMC |-> "", columns |-> << >>]

\* no CopyStageToDestination call yet
CopyIdle ==
  [pc |-> "done", called |-> FALSE,
   config |-> [WriteMode |-> NoWriteMode, WatermarkColumn |-> << >>],
   allCols |-> << >>, stmts |-> << >>, mergeCmd |-> NoMergeCommand, err |-> "",
   temp |-> {}]

\* the values of the upsert key column in the rows of the QRep job
QRepKeys == 1..2

\* Snowflake before the first partition is synced: nothing in the stage of the
\* job, an empty destination table, no metadata row, no local Avro file
SnowflakeEmpty ==
  [stage |-> {}, table |-> {}, metadata |-> {}, localFiles |-> {},
   seen |-> [id \in QRepKeys |-> 0], appended |-> FALSE]

\* no SyncQRepRecords call yet
SyncQRepIdle ==
  [pc |-> "done", called |-> FALSE, StagingPath |-> "", partition |-> "",
   localFilePath |-> "", deferred |-> FALSE, written |-> FALSE, staged |-> FALSE,
   numRecords |-> 0, err |-> ""]

\* no PullFlowCleanup call yet
PullFlowCleanupIdle ==
  [pc |-> "done", called |-> FALSE, jobName |-> << >>, slotName |-> "",
   publicationName |-> "", before |-> NoCatalog, txDropped |-> FALSE, err |-> NoError]

\* an empty bucket and no S3 SyncQRepRecords call yet
S3Empty ==
  [objects |-> {}, pc |-> "done", called |-> FALSE, url |-> << >>, jobName |-> << >>,
   partitionID |-> << >>, stream |-> 0, numRecords |-> 0, err |-> ""]

\* no operation that records heartbeats yet
HeartbeatIdle == [op |-> "", inWorkflow |-> TRUE, localFilePath |-> "", pc |-> 0,
                  failed |-> FALSE, warned |-> FALSE, result |-> "none"]

Started ==
  /\ wal = 0
  /\ slot = [confirmed_flush |-> 0]
  /\ setup = NoSetup
  /\ p = FlowIdle
  /\ fails = 0
  /\ meta = NoRow
  /\ raw = << >>
  /\ dst = EmptyTables
  /\ supportsMerge \in BOOLEAN
  /\ s = SyncIdle
  /\ n = NormalizeIdle
  /\ normHist = << >>
  /\ rawTable = TRUE
  /\ c = CleanupIdle
  /\ txn = TxIdle
  /\ h = HeartbeatIdle
  /\ q = CopyIdle
  /\ sf = SnowflakeEmpty
  /\ sq = SyncQRepIdle
  /\ pf = PullFlowCleanupIdle
  /\ s3 = S3Empty

\* the job is set up: its slot and its publication exist
Init == Started /\ catalog = FlowCatalog /\ stream = << >> /\ tick = 0

\* the job is set up, and the clock advances between its readings
ClockInit == Started /\ catalog = FlowCatalog /\ stream = << >> /\ tick = 1

\* a run that cuts one of the streams into batches
ChunkInit == Started /\ catalog = FlowCatalog /\ stream \in Streams /\ tick = 0

\* a source on which nothing is set up yet
SourceInit == Started /\ catalog = NoCatalog /\ stream = << >> /\ tick = 0

\* ------------------------------------------------------- the metadata store
GetLastSyncBatchID(m) == IF m.exists THEN m.sync_batch_id ELSE 0
getLastNormalizeBatchID(m) == IF m.exists THEN m.normalize_batch_id ELSE 0
jobMetadataExists(m) == m.exists

\* the statement of updateSyncMetadata, as it takes effect at commit
updateSyncMetadata(m, lastCP, syncBatchID) ==
  IF m.exists
  THEN [m EXCEPT !.last_offset = lastCP, !.sync_batch_id = syncBatchID]
  ELSE [exists |-> TRUE, last_offset |-> lastCP, sync_batch_id |-> syncBatchID,
        normalize_batch_id |-> 0]

\* the statement of updateNormalizeMetadata, as it takes effect at commit
updateNormalizeMetadata(m, batchID) ==
  IF m.exists THEN [m EXCEPT !.normalize_batch_id = batchID] ELSE m

\* ------------------------------------------------------------- SyncRecords
RecordTypeCode_deleteAsUpdate(type) == IF type = "insert" THEN 0 ELSE 1
RecordTypeCode(type) == IF type = "insert" THEN 0 ELSE IF type = "update" THEN 1 ELSE 2

\* one raw row per record (the switch of SyncRecords); a JSON object is kept
\* as its map from column to value
RawRow_noMatchData(r, now, syncBatchID) ==
  [timestamp |-> now,
   table |-> r.table,
   data |-> r.items,
   rtype |-> RecordTypeCode(r.type),
   match |-> EmptyItems,
   batch_id |-> syncBatchID,
   toast |-> r.toast,
   cp |-> r.cp]
RawRow(r, now, syncBatchID) ==
  [timestamp |-> now,
   table |-> r.table,
   data |-> r.items,
   rtype |-> RecordTypeCode(r.type),
   match |-> IF r.type = "update" THEN r.olditems
             ELSE IF r.type = "delete" THEN r.items
             ELSE EmptyItems,
   batch_id |-> syncBatchID,
   toast |-> r.toast,
   cp |-> r.cp]

Supported(r) == r.type \in {"insert", "update", "delete"}

NextSyncBatchID_reuse(id) == id
NextSyncBatchID(id) == id + 1

\* the latest reading of the clock among the rows
LastReading(rows) ==
  IF Len(rows) = 0 THEN 0
  ELSE CHOOSE m \in { rows[i].timestamp : i \in 1..Len(rows) } :
         \A i \in 1..Len(rows) : rows[i].timestamp <= m

\* time.Now().UnixNano(), once per record: k readings of a clock that does
\* not go back, the first at or after the reading from
ClockReadings(from, k) ==
  { [i \in 1..k |-> from + first + (i - 1) * step] : first \in 0..tick, step \in 0..tick }

\* the rows of the records, in the order of the records
BuildRecords_reversed(recs, readings, syncBatchID) ==
  [i \in 1..Len(recs) |-> RawRow(recs[Len(recs) + 1 - i], readings[i], syncBatchID)]
BuildRecords(recs, readings, syncBatchID) ==
  [i \in 1..Len(recs) |-> RawRow(recs[i], readings[i], syncBatchID)]

\* lastCP: the last checkpoint of the batch
BatchLastCP_ofLastRecord(req) ==
  IF Len(req.Records) > 0 THEN req.Records[Len(req.Records)].cp ELSE 0
BatchLastCP(req) == req.LastCheckPointID

NothingToSync_never(records) == FALSE
NothingToSync(records) == Len(records) = 0

\* SyncRecords up to the start of the transaction: reads the last sync batch
\* id, builds the raw rows, returns early on an error or on an empty batch.
SyncRecords(req) ==
  /\ s.pc = "done"
  /\ GetLastSyncBatchID(meta) < MaxSyncBatchID
  /\ \E readings \in ClockReadings(LastReading(raw), Len(req.Records)) :
     LET syncBatchID == NextSyncBatchID(GetLastSyncBatchID(meta))
         call == [SyncIdle EXCEPT !.req = req, !.syncBatchID = syncBatchID,
                                  !.lastCP = BatchLastCP(req)]
     IN \/ \* GetLastSyncBatchID or the serialization of some items fails
           s' = [call EXCEPT !.resp = SyncError]
        \/ IF \E i \in 1..Len(req.Records) : ~Supported(req.Records[i])
           THEN s' = [call EXCEPT !.resp = SyncError]
           ELSE LET records == BuildRecords(req.Records, readings, syncBatchID)
                    firstCP == IF Len(req.Records) > 0 THEN req.Records[1].cp ELSE 0
                IN IF NothingToSync(records)
                   THEN s' = [call EXCEPT !.resp = SyncResponse(0, 0, 0, 0)]
                   ELSE s' = [call EXCEPT !.pc = "begin", !.records = records,
                                          !.firstCP = firstCP]
  /\ UNCHANGED << meta, raw, dst, supportsMerge, n, normHist >>

SyncTxBegin ==
  /\ s.pc = "begin"
  /\ s' = [s EXCEPT !.pc = "copy", !.txOpened = TRUE]
  /\ UNCHANGED << meta, raw, dst, supportsMerge, n, normHist >>

CopyCountOk_unchecked(count, records) == TRUE
CopyCountOk(count, records) == count = Len(records)

\* a statement on the raw table goes through when the table exists
RawTableUsable == rawTable

\* CopyFrom inside the transaction, and the check of the number of rows
SyncCopyFrom_autocommit ==
  /\ s.pc = "copy"
  /\ RawTableUsable
  /\ \E count \in {Len(s.records) - 1, Len(s.records)} :
       IF CopyCountOk(count, s.records)
       THEN /\ s' = [s EXCEPT !.pc = "meta"]
            /\ raw' = raw \o SubSeq(s.records, 1, count)
       ELSE /\ s' = [s EXCEPT !.pc = "done", !.txRows = << >>, !.resp = SyncError]
            /\ raw' = raw \o SubSeq(s.records, 1, count)
  /\ UNCHANGED << meta, dst, supportsMerge, n, normHist >>
SyncCopyFrom ==
  /\ s.pc = "copy"
  /\ RawTableUsable
  /\ \E count \in {Len(s.records) - 1, Len(s.records)} :
       IF CopyCountOk(count, s.records)
       THEN s' = [s EXCEPT !.pc = "meta", !.txRows = SubSeq(s.records, 1, count)]
       ELSE s' = [s EXCEPT !.pc = "done", !.txRows = << >>, !.resp = SyncError]
  /\ UNCHANGED << meta, raw, dst, supportsMerge, n, normHist >>

\* updateSyncMetadata inside the transaction; the row of the job stays locked
\* by a normalize transaction that has updated it and not yet ended
SyncUpdateMetadata ==
  /\ s.pc = "meta"
  /\ ~(jobMetadataExists(meta) /\ n.txMetaSet)
  /\ s' = [s EXCEPT !.pc = "commit",
                    !.txMeta = [set |-> TRUE, last_offset |-> s.lastCP,
                                sync_batch_id |-> s.syncBatchID]]
  /\ UNCHANGED << meta, raw, dst, supportsMerge, n, normHist >>

SyncCommit ==
  /\ s.pc = "commit"
  /\ raw' = raw \o s.txRows
  /\ meta' = updateSyncMetadata(meta, s.txMeta.last_offset, s.txMeta.sync_batch_id)
  /\ s' = [s EXCEPT !.pc = "done", !.txRows = << >>, !.txMeta = NoTxMeta,
                    !.resp = SyncResponse(s.firstCP, s.lastCP, Len(s.records),
                                          s.syncBatchID)]
  /\ UNCHANGED << dst, supportsMerge, n, normHist >>

\* an error of Begin, CopyFrom, updateSyncMetadata or Commit: the deferred
\* Rollback discards what the transaction has written
SyncFail ==
  /\ s.pc \in {"begin", "copy", "meta", "commit"}
  /\ s' = [s EXCEPT !.pc = "done", !.txRows = << >>, !.txMeta = NoTxMeta, !.resp = SyncError]
  /\ UNCHANGED << meta, raw, dst, supportsMerge, n, normHist >>

\* -------------------------------------------------------- NormalizeRecords
InRange(r, normalizeBatchID, syncBatchID) ==
  r.batch_id > normalizeBatchID /\ r.batch_id <= syncBatchID

\* table name -> unchanged TOAST columns of the raw rows of the batches
\* (normalizeBatchID, syncBatchID]
getTableNametoUnchangedCols(rows, syncBatchID, normalizeBatchID) ==
  [t \in Tables |->
     LET idx == {i \in 1..Len(rows) :
                   rows[i].table = t /\ InRange(rows[i], normalizeBatchID, syncBatchID)}
     IN [has |-> idx # {}, toast |-> UNION {rows[i].toast : i \in idx}]]

\* the raw rows of one key of one table in the range, in insertion order
RowsOfKey(rows, t, k, normalizeBatchID, syncBatchID) ==
  SelectSeq(rows, LAMBDA r : r.table = t /\ r.data.id = k
                             /\ InRange(r, normalizeBatchID, syncBatchID))

\* MERGE form, for one key: the last row of the key decides
MergeKey(cur, rows) ==
  IF rows = << >> THEN cur
  ELSE LET last == rows[Len(rows)]
       IN IF last.rtype = 2 THEN Absent
          ELSE Row(IF "big" \in last.toast THEN cur.big ELSE last.data.big)

MergeAffected(cur, rows) ==
  IF rows = << >> THEN 0
  ELSE IF rows[Len(rows)].rtype = 2 /\ ~cur.present THEN 0 ELSE 1

\* fallback form, for one key: INSERT .. ON CONFLICT DO NOTHING, then UPDATE
\* with COALESCE on the unchanged TOAST columns, then DELETE
FallbackKey(cur, rows) ==
  IF rows = << >> THEN cur
  ELSE LET last == rows[Len(rows)]
       IN IF last.rtype = 0
          THEN (IF cur.present THEN cur ELSE Row(last.data.big))
          ELSE IF last.rtype = 1
          THEN (IF ~cur.present THEN cur
                ELSE Row(IF "big" \in last.toast /\ last.data.big = Null
                         THEN cur.big ELSE last.data.big))
          ELSE Absent

FallbackAffected(cur, rows) ==
  IF rows = << >> THEN 0
  ELSE IF rows[Len(rows)].rtype = 0 THEN (IF cur.present THEN 0 ELSE 1)
  ELSE IF cur.present THEN 1 ELSE 0

\* the effect of the statements generateNormalizeStatements builds for table t
generateNormalizeStatements(d, rows, t, normalizeBatchID, syncBatchID, merge) ==
  [k \in Keys |->
     LET rs == RowsOfKey(rows, t, k, normalizeBatchID, syncBatchID)
     IN IF merge THEN MergeKey(d[t][k], rs) ELSE FallbackKey(d[t][k], rs)]

\* the statements of every table that has an entry in the map
NormalizeStatements_skipNoToast(d, rows, cols, normalizeBatchID, syncBatchID, merge) ==
  [t \in Tables |->
     IF cols[t].has /\ cols[t].toast # {}
     THEN generateNormalizeStatements(d, rows, t, normalizeBatchID, syncBatchID, merge)
     ELSE d[t]]
NormalizeStatements(d, rows, cols, normalizeBatchID, syncBatchID, merge) ==
  [t \in Tables |->
     IF cols[t].has
     THEN generateNormalizeStatements(d, rows, t, normalizeBatchID, syncBatchID, merge)
     ELSE d[t]]

RECURSIVE SumOver(_, _)
SumOver(f, S) ==
  IF S = {} THEN 0
  ELSE LET x == CHOOSE y \in S : TRUE IN f[x] + SumOver(f, S \ {x})

RowsAffected(d, rows, cols, normalizeBatchID, syncBatchID, merge) ==
  LET pairs == {tk \in Tables \X Keys : cols[tk[1]].has}
      f == [tk \in pairs |->
              LET rs == RowsOfKey(rows, tk[1], tk[2], normalizeBatchID, syncBatchID)
              IN IF merge THEN MergeAffected(d[tk[1]][tk[2]], rs)
                 ELSE FallbackAffected(d[tk[1]][tk[2]], rs)]
  IN SumOver(f, pairs)

\* the first read of NormalizeRecords: the last sync batch id
NormalizeRecords ==
  /\ n.pc = "done"
  /\ \/ n' = [NormalizeIdle EXCEPT !.pc = "readN", !.prev = n.resp,
                                   !.syncBatchID = GetLastSyncBatchID(meta)]
     \/ n' = [NormalizeIdle EXCEPT !.prev = n.resp, !.resp = NormalizeError]
  /\ UNCHANGED << meta, raw, dst, supportsMerge, s, normHist >>

NormReadNormalizeBatchID ==
  /\ n.pc = "readN"
  /\ n' = [n EXCEPT !.pc = "readE", !.normalizeBatchID = getLastNormalizeBatchID(meta)]
  /\ UNCHANGED << meta, raw, dst, supportsMerge, s, normHist >>

CaughtUp_never(syncBatchID, normalizeBatchID, exists) == FALSE
CaughtUp(syncBatchID, normalizeBatchID, exists) ==
  syncBatchID = normalizeBatchID \/ ~exists

EarlyResponse_next(normalizeBatchID, syncBatchID) ==
  NormalizeResponse(normalizeBatchID + 1, syncBatchID)
EarlyResponse(normalizeBatchID, syncBatchID) ==
  NormalizeResponse(normalizeBatchID, syncBatchID)

\* the read of jobMetadataExists and the early return
NormReadExists ==
  /\ n.pc = "readE"
  /\ IF CaughtUp(n.syncBatchID, n.normalizeBatchID, jobMetadataExists(meta))
     THEN n' = [n EXCEPT !.pc = "done",
                         !.resp = EarlyResponse(n.normalizeBatchID, n.syncBatchID)]
     ELSE n' = [n EXCEPT !.pc = "cols"]
  /\ UNCHANGED << meta, raw, dst, supportsMerge, s, normHist >>

NormGetUnchangedCols ==
  /\ n.pc = "cols"
  /\ RawTableUsable
  /\ n' = [n EXCEPT !.pc = "begin",
                    !.cols = getTableNametoUnchangedCols(raw, n.syncBatchID,
                                                         n.normalizeBatchID)]
  /\ UNCHANGED << meta, raw, dst, supportsMerge, s, normHist >>

NormTxBegin ==
  /\ n.pc = "begin"
  /\ n' = [n EXCEPT !.pc = "version", !.txOpened = TRUE, !.txDst = dst]
  /\ UNCHANGED << meta, raw, dst, supportsMerge, s, normHist >>

\* majorVersionCheck(150000)
NormVersionCheck ==
  /\ n.pc = "version"
  /\ n' = [n EXCEPT !.pc = "send"]
  /\ UNCHANGED << meta, raw, dst, supportsMerge, s, normHist >>

\* SendBatch of the statements of every table of the map, in the transaction
NormSendBatch_autocommit ==
  /\ n.pc = "send"
  /\ RawTableUsable
  /\ LET newDst == NormalizeStatements(dst, raw, n.cols, n.normalizeBatchID,
                                       n.syncBatchID, supportsMerge)
         affected == RowsAffected(dst, raw, n.cols, n.normalizeBatchID, n.syncBatchID,
                                  supportsMerge)
     IN /\ n' = [n EXCEPT !.pc = IF affected > 0 THEN "counts" ELSE "meta",
                          !.txDst = newDst, !.rowsAffected = affected]
        /\ dst' = newDst
  /\ UNCHANGED << meta, raw, supportsMerge, s, normHist >>
NormSendBatch ==
  /\ n.pc = "send"
  /\ RawTableUsable
  /\ LET newDst == NormalizeStatements(dst, raw, n.cols, n.normalizeBatchID,
                                       n.syncBatchID, supportsMerge)
         affected == RowsAffected(dst, raw, n.cols, n.normalizeBatchID, n.syncBatchID,
                                  supportsMerge)
     IN n' = [n EXCEPT !.pc = IF affected > 0 THEN "counts" ELSE "meta",
                       !.txDst = newDst, !.rowsAffected = affected]
  /\ UNCHANGED << meta, raw, dst, supportsMerge, s, normHist >>

\* getApproxTableCounts, called when some row was affected
NormApproxCounts ==
  /\ n.pc = "counts"
  /\ n' = [n EXCEPT !.pc = "meta"]
  /\ UNCHANGED << meta, raw, dst, supportsMerge, s, normHist >>

\* updateNormalizeMetadata inside the transaction; the row of the job stays
\* locked by a sync transaction that has updated it and not yet ended
NormUpdateMetadata ==
  /\ n.pc = "meta"
  /\ ~s.txMeta.set
  /\ n' = [n EXCEPT !.pc = "commit", !.txMetaSet = TRUE]
  /\ UNCHANGED << meta, raw, dst, supportsMerge, s, normHist >>

NormalizedTo_next(syncBatchID, m) == syncBatchID + 1
NormalizedTo_current(syncBatchID, m) == m.sync_batch_id
NormalizedTo(syncBatchID, m) == syncBatchID

\* the response of a normalize that committed
CommittedResponse_fromN(normalizeBatchID, syncBatchID) ==
  NormalizeResponse(normalizeBatchID, syncBatchID)
CommittedResponse(normalizeBatchID, syncBatchID) ==
  NormalizeResponse(normalizeBatchID + 1, syncBatchID)

NormCommit ==
  /\ n.pc = "commit"
  /\ dst' = n.txDst
  /\ meta' = updateNormalizeMetadata(meta, NormalizedTo(n.syncBatchID, meta))
  /\ n' = [n EXCEPT !.pc = "done", !.txDst = EmptyTables, !.txMetaSet = FALSE,
                    !.resp = CommittedResponse(n.normalizeBatchID, n.syncBatchID)]
  /\ normHist' = Append(normHist, [start |-> n.normalizeBatchID + 1,
                                   end |-> n.syncBatchID,
                                   stored |-> meta.sync_batch_id])
  /\ UNCHANGED << raw, supportsMerge, s >>

\* an error of a read, of Begin, of a statement, of the metadata update or of
\* Commit: the deferred Rollback discards what the transaction has written
NormFail ==
  /\ n.pc \in {"readN", "readE", "cols", "begin", "version", "send", "counts", "meta",
               "commit"}
  /\ n' = [n EXCEPT !.pc = "done", !.txDst = EmptyTables, !.txMetaSet = FALSE,
                    !.resp = NormalizeError]
  /\ UNCHANGED << meta, raw, dst, supportsMerge, s, normHist >>

\* ------------------------------------------------- the pull and sync flow
\* GetLastOffset: nil without a row and for a stored 0
GetLastOffset_zeroIsOffset(m) ==
  IF ~m.exists THEN NoLastSyncState ELSE LastSyncState(m.last_offset)
GetLastOffset(m) ==
  IF ~m.exists THEN NoLastSyncState
  ELSE IF m.last_offset = 0 THEN NoLastSyncState
  ELSE LastSyncState(m.last_offset)

\* the records of the source transaction that committed at LSN l
TxnRecords(l) ==
  IF l = 2 THEN << InsertRecord("t1", 1, "a", l), UpdateRecord("t1", 1, "b", {}, l) >>
  ELSE IF l = 3 THEN << InsertRecord("t2", 1, "a", l), UpdateRecord("t2", 1, "b", {}, l),
                        DeleteRecord("t1", 1, l) >>
  ELSE << InsertRecord("t1", 1, "a", l) >>

Max(a, b) == IF a >= b THEN a ELSE b

\* where the stream starts: never before what the slot has confirmed as flushed
StartLSN(last, sl) == Max(IF last.nil THEN 0 ELSE last.Checkpoint, sl.confirmed_flush)

\* the Standby Status Update sent on Commit
StandbyStatusUpdate(sl, lsn) == [sl EXCEPT !.confirmed_flush = Max(sl.confirmed_flush, lsn)]

\* the caller reads the stored offset it pulls from
FlowGetLastOffset ==
  /\ p.pc = "idle"
  /\ p' = [FlowIdle EXCEPT !.pc = "check", !.last = GetLastOffset(meta)]
  /\ UNCHANGED << wal, slot, catalog, setup, stream, opsVars >>

\* the publication the CDC source filters by: none when it does not exist
PublicationFilter_keep(exists, publicationName) == publicationName
PublicationFilter(exists, publicationName) ==
  IF ~exists.PublicationExists THEN "" ELSE publicationName

\* PullRecords up to the creation of the CDC source
PullRecords(req) ==
  /\ p.pc = "check"
  /\ LET slotName == PullSlotName(req)
         publicationName == PullPublicationName(req)
         exists == checkSlotAndPublication(catalog, slotName, publicationName)
         call == [p EXCEPT !.req = req, !.slotName = slotName,
                           !.publicationName = publicationName]
     IN \/ \* checkSlotAndPublication fails
           p' = [call EXCEPT !.pc = "idle",
                             !.err = Error("error checking for replication slot and publication", "")]
        \/ IF ~exists.SlotExists
           THEN p' = [call EXCEPT !.pc = "idle",
                                  !.err = Error("replication slot does not exist", slotName)]
           ELSE p' = [call EXCEPT !.pc = "cdc",
                                  !.cdc = PostgresCDCSource(
                                            slotName, PublicationFilter(exists, publicationName)),
                                  !.clientXLogPos = StartLSN(p.last, slot)]
  /\ UNCHANGED << wal, slot, catalog, setup, stream, opsVars >>

\* Begin of the next committed transaction: the staging buffer starts; no
\* transaction is started once the batch has max_records records
CdcBegin ==
  /\ p.pc = "cdc"
  /\ ~p.staging.open
  /\ p.clientXLogPos < wal
  /\ Len(p.batch.Records) < MaxRecords
  /\ p' = [p EXCEPT !.staging = [open |-> TRUE, records |-> << >>]]
  /\ UNCHANGED << wal, slot, catalog, setup, stream, opsVars >>

\* Insert, Update or Delete: the record joins the staging buffer, with the
\* commit LSN of its transaction as its checkpoint
CdcRecord ==
  /\ p.pc = "cdc"
  /\ p.staging.open
  /\ Len(p.staging.records) < Len(TxnRecords(p.clientXLogPos + 1))
  /\ p' = [p EXCEPT !.staging.records =
                       Append(@, TxnRecords(p.clientXLogPos + 1)[Len(@) + 1])]
  /\ UNCHANGED << wal, slot, catalog, setup, stream, opsVars >>

\* Commit: the staging buffer is flushed into the batch and the flushed LSN
\* of the slot advances to the commit
CdcCommit ==
  /\ p.pc = "cdc"
  /\ p.staging.open
  /\ Len(p.staging.records) = Len(TxnRecords(p.clientXLogPos + 1))
  /\ LET lsn == p.clientXLogPos + 1
     IN /\ p' = [p EXCEPT !.clientXLogPos = lsn,
                          !.batch = RecordBatch(p.batch.Records \o p.staging.records, lsn),
                          !.staging = NoStaging]
        /\ slot' = StandbyStatusUpdate(slot, lsn)
  /\ UNCHANGED << wal, catalog, setup, stream, opsVars >>

\* the pull may return: in a transaction when max_wait has elapsed; between
\* transactions when max_records is reached or nothing more is to be read
MayReturn(call) ==
  IF call.staging.open THEN TRUE
  ELSE call.clientXLogPos = wal \/ Len(call.batch.Records) >= MaxRecords

\* the counts and the latest LSN are for a batch with records
PostStepsNeeded_always(batch) == TRUE
PostStepsNeeded(batch) == Len(batch.Records) > 0

\* the CDC source returns the batch: the transactions that were flushed into
\* it; what is in the staging buffer is dropped
CdcReturn_withStaged ==
  /\ p.pc = "cdc"
  /\ MayReturn(p)
  /\ LET records == p.batch.Records \o p.staging.records
     IN p' = [p EXCEPT !.pc = IF Len(records) > 0 THEN "post" ELSE "pulled",
                       !.batch = RecordBatch(records, p.batch.LastCheckPointID),
                       !.staging = NoStaging]
  /\ UNCHANGED << wal, slot, catalog, setup, stream, opsVars >>
CdcReturn ==
  /\ p.pc = "cdc"
  /\ MayReturn(p)
  /\ p' = [p EXCEPT !.pc = IF PostStepsNeeded(p.batch) THEN "post" ELSE "pulled",
                    !.staging = NoStaging]
  /\ UNCHANGED << wal, slot, catalog, setup, stream, opsVars >>

\* getApproxTableCounts, and the lookup of the mirror monitor in the context
PullPostSteps ==
  /\ p.pc = "post"
  /\ \E ok \in BOOLEAN :
       p' = [p EXCEPT !.pc = IF ok THEN "lsn" ELSE "pulled", !.counted = TRUE,
                      !.monitor = ok]
  /\ UNCHANGED << wal, slot, catalog, setup, stream, opsVars >>

\* getCurrentLSN and UpdateLatestLSNAtSourceForCDCFlow, when the context has
\* a mirror monitor
PullUpdateLatestLSN ==
  /\ p.pc = "lsn"
  /\ p' = [p EXCEPT !.pc = "pulled", !.lsnUpdated = TRUE]
  /\ UNCHANGED << wal, slot, catalog, setup, stream, opsVars >>

\* an error in PullRecords after its checks: no batch is returned, the caller
\* starts again
PullFail ==
  /\ p.pc \in {"cdc", "post", "lsn"}
  /\ p' = [FlowIdle EXCEPT !.req = p.req, !.slotName = p.slotName,
                           !.publicationName = p.publicationName,
                           !.err = Error("error", "")]
  /\ UNCHANGED << wal, slot, catalog, setup, stream, opsVars >>

\* the caller hands the pulled batch to SyncRecords
FlowSyncRecords ==
  /\ p.pc = "pulled"
  /\ SyncRecords(p.batch)
  /\ p' = [p EXCEPT !.pc = "syncing"]
  /\ UNCHANGED << wal, slot, catalog, setup, stream, opsVars >>

\* SyncRecords has returned (a response or an error): the next pull starts
\* from the stored offset
FlowSyncReturned ==
  /\ p.pc = "syncing"
  /\ s.pc = "done"
  /\ p' = FlowIdle
  /\ UNCHANGED << meta, raw, dst, supportsMerge, s, n, normHist, wal, slot, fails >>
  /\ UNCHANGED srcVars

SourceCommit ==
  /\ wal < MaxLSN
  /\ wal' = wal + 1
  /\ UNCHANGED << meta, raw, dst, supportsMerge, s, n, normHist, slot, p, fails >>
  /\ UNCHANGED srcVars

\* a step of the flow that fails counts against the failures of the run
Counted(failed) ==
  IF failed THEN fails < MaxFailures /\ fails' = fails + 1 ELSE fails' = fails

coreUnchanged == UNCHANGED << meta, raw, dst, supportsMerge, s, n, normHist >>

\* ------------------------------------------------------- SetupReplication
\* the publication is created when it does not exist, then the slot when it
\* does not exist; a slot without its publication is refused
createSlotAndPublication(cat, exists, slotName, publicationName) ==
  IF exists.SlotExists /\ ~exists.PublicationExists
  THEN [err |-> TRUE, catalog |-> cat]
  ELSE [err |-> FALSE,
        catalog |-> [slots |-> cat.slots \cup {slotName},
                     pubs |-> cat.pubs \cup {publicationName}]]

SetupReplication(req) ==
  /\ LET call == [NoSetup EXCEPT !.called = TRUE, !.req = req]
     IN IF ~MatchesJobNameRegexp(req.FlowJobName)
        THEN /\ setup' = [call EXCEPT !.err = Error("invalid flow job name",
                                                    String(req.FlowJobName))]
             /\ catalog' = catalog
        ELSE LET slotName == SetupSlotName(req)
                 publicationName == SetupPublicationName(req)
                 exists == checkSlotAndPublication(catalog, slotName, publicationName)
                 created == createSlotAndPublication(catalog, exists, slotName,
                                                     publicationName)
                 named == [call EXCEPT !.slotName = slotName,
                                       !.publicationName = publicationName,
                                       !.queried = TRUE]
             IN \/ \* checkSlotAndPublication fails
                   /\ setup' = [named EXCEPT !.err =
                                  Error("error checking for replication slot and publication", "")]
                   /\ catalog' = catalog
                \/ /\ setup' = [named EXCEPT !.err =
                                  IF created.err
                                  THEN Error("error creating replication slot and publication", "")
                                  ELSE NoError]
                   /\ catalog' = created.catalog
  /\ UNCHANGED << meta, raw, dst, supportsMerge, s, n, normHist, wal, slot, p, fails, stream, opsVars >>

\* a slot or a publication is dropped at the source, out of band
DropSlot ==
  /\ \E name \in catalog.slots : catalog' = [catalog EXCEPT !.slots = @ \ {name}]
  /\ UNCHANGED << meta, raw, dst, supportsMerge, s, n, normHist, wal, slot, p, fails, setup,
                  stream, opsVars >>

DropPublication ==
  /\ \E name \in catalog.pubs : catalog' = [catalog EXCEPT !.pubs = @ \ {name}]
  /\ UNCHANGED << meta, raw, dst, supportsMerge, s, n, normHist, wal, slot, p, fails, setup,
                  stream, opsVars >>

\* ------------------------------------------------------- PullFlowCleanup
\* the names PullFlowCleanup works with
CleanupSlotName(jobName) == "peerflow_slot_" \o String(jobName)
CleanupPublicationName(jobName) == "peerflow_pub_" \o String(jobName)

pullCleanupUnchanged ==
  UNCHANGED << meta, raw, dst, supportsMerge, s, n, normHist, wal, slot, p, fails, setup,
               stream, rawTable, c, txn, h, tick, q, sf, sq, s3 >>

\* a return with an error: the deferred Rollback ends the transaction, and
\* what the transaction has dropped is there again
PullFlowCleanupReturn(kind) ==
  pf' = [pf EXCEPT !.pc = "done", !.txDropped = FALSE, !.err = Error(kind, "")]

\* PullFlowCleanup up to the Begin of its transaction
PullFlowCleanup(jobName) ==
  /\ pf.pc = "done"
  /\ LET call == [PullFlowCleanupIdle EXCEPT !.called = TRUE, !.jobName = jobName,
                                             !.slotName = CleanupSlotName(jobName),
                                             !.publicationName = CleanupPublicationName(jobName),
                                             !.before = catalog]
     IN \/ pf' = [call EXCEPT !.pc = "publication"]
        \/ pf' = [call EXCEPT !.err = Error("error starting transaction for flow cleanup", "")]
  /\ UNCHANGED catalog

\* DROP PUBLICATION IF EXISTS, in the transaction
PullFlowCleanupDropPublication ==
  /\ pf.pc = "publication"
  /\ \/ pf' = [pf EXCEPT !.pc = "slot", !.txDropped = pf.publicationName \in catalog.pubs]
     \/ PullFlowCleanupReturn("error dropping publication")
  /\ UNCHANGED catalog

\* SELECT pg_drop_replication_slot: an error when the slot does not exist;
\* the slot is dropped at once, the transaction does not hold it back
PullFlowCleanupDropSlot ==
  /\ pf.pc = "slot"
  /\ IF pf.slotName \in catalog.slots
     THEN \/ /\ pf' = [pf EXCEPT !.pc = "commit"]
             /\ catalog' = [catalog EXCEPT !.slots = @ \ {pf.slotName}]
          \/ /\ PullFlowCleanupReturn("error dropping replication slot")
             /\ UNCHANGED catalog
     ELSE /\ PullFlowCleanupReturn("error dropping replication slot")
          /\ UNCHANGED catalog

\* Commit: the publication is dropped; or the Commit fails
PullFlowCleanupCommit ==
  /\ pf.pc = "commit"
  /\ \/ /\ pf' = [pf EXCEPT !.pc = "done", !.txDropped = FALSE]
        /\ catalog' = [catalog EXCEPT !.pubs = @ \ {pf.publicationName}]
     \/ /\ PullFlowCleanupReturn("error committing transaction for flow cleanup")
        /\ UNCHANGED catalog

\* --------------------------------------------------- S3: SyncQRepRecords
\* the URLs of the connector: two prefixes of one bucket, and a URL that is
\* not an S3 URL
S3URLs ==
  { << "s", "3", ":", "/", "/", "b", "/", "x" >>,
    << "s", "3", ":", "/", "/", "b", "/", "x", "/", "y" >>,
    << "g", "s", ":", "/", "/", "b", "/", "x" >> }
S3Partitions == { << "p", "1" >>, << "p", "2" >> }

\* the streams of a partition, as the number of their records
S3Streams == 1..2

\* utils.NewS3BucketAndPrefix: the bucket is what stands between s3:// and
\* the next slash, the prefix is what follows that slash
NewS3BucketAndPrefix(url) ==
  IF Len(url) < 5 \/ SubSeq(url, 1, 5) # << "s", "3", ":", "/", "/" >>
  THEN [err |-> TRUE, Bucket |-> << >>, Prefix |-> << >>]
  ELSE LET rest == SubSeq(url, 6, Len(url))
           slashes == { i \in 1..Len(rest) : rest[i] = "/" }
           cut == IF slashes = {} THEN Len(rest) + 1
                  ELSE CHOOSE i \in slashes : \A j \in slashes : i <= j
       IN [err |-> FALSE, Bucket |-> SubSeq(rest, 1, cut - 1),
           Prefix |-> SubSeq(rest, cut + 1, Len(rest))]

\* fmt.Sprintf("%s/%s/%s.avro", s3o.Prefix, jobName, partitionID)
S3Key_ofJob(Prefix, jobName, partitionID) ==
  String(Prefix) \o "/" \o String(jobName) \o "/" \o ".avro"
S3Key(Prefix, jobName, partitionID) ==
  String(Prefix) \o "/" \o String(jobName) \o "/" \o String(partitionID) \o ".avro"

\* WriteRecordsToS3: the object of the key is written, in place of the object
\* the key had
PutObject(objects, Bucket, key, jobName, partitionID, records) ==
  { ob \in objects : ~(ob.Bucket = Bucket /\ ob.key = key) }
  \cup { [Bucket |-> Bucket, key |-> key, jobName |-> jobName,
          partitionID |-> partitionID, records |-> records] }

s3Unchanged ==
  UNCHANGED << meta, raw, dst, supportsMerge, s, n, normHist, wal, slot, p, fails, catalog,
               setup, stream, rawTable, c, txn, h, tick, q, sf, sq, pf >>

\* S3 SyncQRepRecords up to the Avro schema: stream.Schema and getAvroSchema
S3SyncQRepRecords(url, jobName, partitionID, records) ==
  /\ s3.pc = "done"
  /\ LET call == [S3Empty EXCEPT !.objects = s3.objects, !.called = TRUE, !.url = url,
                                 !.jobName = jobName, !.partitionID = partitionID,
                                 !.stream = records]
     IN \/ s3' = [call EXCEPT !.pc = "write"]
        \/ s3' = [call EXCEPT !.err = "failed to get schema from stream"]
        \/ s3' = [call EXCEPT !.err = "failed to define Avro schema"]

\* writeToAvroFile: the records go to the object of the key
S3WriteToAvroFile ==
  /\ s3.pc = "write"
  /\ LET s3o == NewS3BucketAndPrefix(s3.url)
         s3Key == S3Key(s3o.Prefix, s3.jobName, s3.partitionID)
     IN IF s3o.err
        THEN s3' = [s3 EXCEPT !.pc = "done", !.err = "failed to parse bucket path"]
        ELSE \/ s3' = [s3 EXCEPT !.pc = "done", !.numRecords = s3.stream,
                                 !.objects = PutObject(@, String(s3o.Bucket), s3Key,
                                                       s3.jobName, s3.partitionID,
                                                       s3.stream)]
             \/ s3' = [s3 EXCEPT !.pc = "done", !.err = "failed to write records to S3"]

\* the caller syncs the next changes of the stream, as many as the pull
\* returned
ChunkSyncRecords ==
  \E to \in (Len(raw) + 1)..Len(stream) :
    SyncRecords(RecordBatch(SubSeq(stream, Len(raw) + 1, to), stream[to].cp))

\* --------------------------------------------------------- SyncFlowCleanup
MaxCleanups == 2

\* the batch synced in the runs with a cleanup
CleanupRequests ==
  { RecordBatch(<< InsertRecord("t1", 1, "a", 3), UpdateRecord("t1", 1, "b", {}, 3),
                   InsertRecord("t2", 1, "c", 3), DeleteRecord("t2", 1, 3) >>, 3) }

\* SyncFlowCleanup: Begin
SyncFlowCleanup ==
  /\ c.pc = "done"
  /\ c.calls < MaxCleanups
  /\ \/ c' = [CleanupIdle EXCEPT !.calls = c.calls + 1, !.pc = "drop", !.txOpened = TRUE]
     \/ c' = [CleanupIdle EXCEPT !.calls = c.calls + 1, !.err = TRUE]
  /\ UNCHANGED << meta, raw, dst, rawTable >>

\* DROP TABLE IF EXISTS of the raw table, in the transaction
CleanupDropRawTable_autocommit ==
  /\ c.pc = "drop"
  /\ c' = [c EXCEPT !.pc = "delete", !.txDropped = TRUE]
  /\ rawTable' = FALSE
  /\ raw' = << >>
  /\ UNCHANGED << meta, dst >>
CleanupDropRawTable ==
  /\ c.pc = "drop"
  /\ c' = [c EXCEPT !.pc = "delete", !.txDropped = TRUE]
  /\ UNCHANGED << meta, raw, dst, rawTable >>

\* the delete of the row of the job in the mirror jobs table, in the
\* transaction
CleanupDeleteMetadata ==
  /\ c.pc = "delete"
  /\ c' = [c EXCEPT !.pc = "commit", !.txDeleted = TRUE]
  /\ UNCHANGED << meta, raw, dst, rawTable >>

\* Commit: the drop and the delete take effect together
CleanupCommit ==
  /\ c.pc = "commit"
  /\ rawTable' = FALSE
  /\ raw' = << >>
  /\ meta' = NoRow
  /\ c' = [c EXCEPT !.pc = "done", !.txDropped = FALSE, !.txDeleted = FALSE]
  /\ UNCHANGED dst

\* an error of a statement or of Commit: the deferred Rollback discards the
\* drop and the delete
CleanupFail ==
  /\ c.pc \in {"drop", "delete", "commit"}
  /\ c' = [c EXCEPT !.pc = "done", !.txDropped = FALSE, !.txDeleted = FALSE, !.err = TRUE]
  /\ UNCHANGED << meta, raw, dst, rawTable >>

\* what a cleanup step leaves alone
cleanupUnchanged ==
  UNCHANGED << supportsMerge, s, n, normHist, wal, slot, p, fails, catalog, setup, stream, txn, h, tick, q, callVars >>

\* ------------------------------------- the transactions of the operations
\* the operations that work in a transaction
TransactionalOps ==
  { "SetupMetadataTables", "SyncRecords", "NormalizeRecords", "CreateRawTable",
    "SetupNormalizedTables", "PullFlowCleanup", "SyncFlowCleanup" }

\* the statements an operation runs between Begin and Commit
Statements(op) == IF op = "NormalizeRecords" THEN 3 ELSE 2

\* the error that the deferred function of an operation takes as "the
\* transaction is already closed"
ToleratedRollbackError(op) ==
  IF op = "SyncFlowCleanup" THEN "sql.ErrTxDone" ELSE "pgx.ErrTxClosed"

\* Rollback of a pgx transaction: ErrTxClosed once Commit was called on it;
\* on an open transaction it rolls back, and may fail with the connection
RollbackErrors(closed) == IF closed THEN { "pgx.ErrTxClosed" } ELSE { "nil", "conn" }

\* the test of the deferred function: is the rollback error logged as unexpected
UnexpectedRollbackError(op, deferErr) ==
  deferErr # ToleratedRollbackError(op) /\ deferErr # "nil"

\* Begin: on an error the operation returns before it defers the Rollback
TxBegin(op) ==
  /\ txn.pc = "done"
  /\ \/ txn' = [TxIdle EXCEPT !.op = op, !.pc = "body", !.began = TRUE, !.tx = "open"]
     \/ txn' = [TxIdle EXCEPT !.op = op, !.err = TRUE]

\* a statement of the operation succeeds
TxExec ==
  /\ txn.pc = "body"
  /\ txn' = [txn EXCEPT !.step = txn.step + 1,
                    !.pc = IF txn.step + 1 = Statements(txn.op) THEN "commit" ELSE "body"]

\* a statement of the operation fails: the operation returns the error
TxExecFail ==
  /\ txn.pc = "body"
  /\ txn' = [txn EXCEPT !.pc = "defer", !.err = TRUE]

\* Commit closes the transaction, committed or not
TxCommit ==
  /\ txn.pc = "commit"
  /\ \/ txn' = [txn EXCEPT !.pc = "defer", !.tx = "committed", !.closed = TRUE]
     \/ txn' = [txn EXCEPT !.pc = "defer", !.tx = "rolledback", !.closed = TRUE, !.err = TRUE]

\* the deferred function: Rollback, and the log of an unexpected error of it
TxDeferredRollback ==
  /\ txn.pc = "defer"
  /\ \E deferErr \in RollbackErrors(txn.closed) :
       txn' = [txn EXCEPT !.pc = "done",
                      !.tx = IF txn.closed THEN txn.tx ELSE "rolledback",
                      !.deferErr = deferErr,
                      !.logged = UnexpectedRollbackError(txn.op, deferErr)]

txUnchanged ==
  UNCHANGED << meta, raw, dst, supportsMerge, s, n, normHist, wal, slot, p, fails, catalog,
               setup, stream, rawTable, c, h, tick, q, callVars >>

\* the transactional operations, one at a time
TxNext ==
  \/ (\E op \in TransactionalOps : TxBegin(op)) /\ txUnchanged
  \/ TxExec /\ txUnchanged
  \/ TxExecFail /\ txUnchanged
  \/ TxCommit /\ txUnchanged
  \/ TxDeferredRollback /\ txUnchanged

\* ------------------------------------------------------------ heartbeats
\* the operations that record heartbeats
PostgresHeartbeatOps == { "GetTableSchema", "SetupNormalizedTables", "EnsurePullability" }
SnowflakeHeartbeatOps == { "putFileToStage", "SyncQRepRecords" }

\* where the Avro file was written: a local file, or "" when it went to S3
LocalFilePaths == { "", "/tmp/peerdb-avro/p.avro" }

\* putFileToStage: nothing without a local file; else a heartbeat, then PUT
putFileToStageSteps(localFilePath) ==
  IF localFilePath = "" THEN << >> ELSE << "heartbeat", "work" >>

\* the steps of an operation, in the order of its code: "work" is a step
\* that can return an error, "heartbeat" a call that records a heartbeat;
\* the loops run over the two tables
Steps(op, localFilePath) ==
  IF op = "GetTableSchema" THEN << "work", "heartbeat", "work", "heartbeat" >>
  ELSE IF op = "SetupNormalizedTables"
  THEN << "work", "work", "heartbeat", "work", "heartbeat", "work" >>
  ELSE IF op = "EnsurePullability" THEN << "work", "heartbeat", "work", "heartbeat" >>
  ELSE IF op = "putFileToStage" THEN putFileToStageSteps(localFilePath)
  ELSE << "work" >> \o putFileToStageSteps(localFilePath) \o << "work", "heartbeat" >>

\* activity.RecordHeartbeat panics outside a workflow
RecordHeartbeatPanics(inWorkflow) == ~inWorkflow

\* the operations that record through recordHeartbeatWithRecover
RecoversFromPanic(op) == op \in PostgresHeartbeatOps

\* the result of an operation that has run its last step
Returned(call) ==
  IF call.pc = Len(Steps(call.op, call.localFilePath))
  THEN [call EXCEPT !.result = "ok"]
  ELSE call

\* an operation is called, in a workflow or outside of one
HeartbeatOperation(op, inWorkflow, localFilePath) ==
  /\ h.result # "none" \/ h.op = ""
  /\ h' = Returned([HeartbeatIdle EXCEPT !.op = op, !.inWorkflow = inWorkflow,
                                         !.localFilePath = localFilePath])

\* a step that is not a heartbeat: it succeeds, or the operation returns
\* its error
OperationWork ==
  /\ h.result = "none" /\ h.op # ""
  /\ Steps(h.op, h.localFilePath)[h.pc + 1] = "work"
  /\ \/ h' = Returned([h EXCEPT !.pc = h.pc + 1])
     \/ h' = [h EXCEPT !.failed = TRUE, !.result = "err"]

\* a heartbeat: recorded in a workflow; outside of one the call panics, and
\* the panic is recovered in recordHeartbeatWithRecover or ends the operation
OperationHeartbeat ==
  /\ h.result = "none" /\ h.op # ""
  /\ Steps(h.op, h.localFilePath)[h.pc + 1] = "heartbeat"
  /\ IF ~RecordHeartbeatPanics(h.inWorkflow)
     THEN h' = Returned([h EXCEPT !.pc = h.pc + 1])
     ELSE IF RecoversFromPanic(h.op)
     THEN h' = Returned([h EXCEPT !.pc = h.pc + 1, !.warned = TRUE])
     ELSE h' = [h EXCEPT !.result = "panic"]

heartbeatUnchanged ==
  UNCHANGED << meta, raw, dst, supportsMerge, s, n, normHist, wal, slot, p, fails, catalog,
               setup, stream, rawTable, c, txn, tick, q, callVars >>

\* the operations that record heartbeats, one at a time
HeartbeatNext ==
  \/ (\E op \in PostgresHeartbeatOps \cup SnowflakeHeartbeatOps, inWorkflow \in BOOLEAN,
          localFilePath \in LocalFilePaths :
         HeartbeatOperation(op, inWorkflow, localFilePath)) /\ heartbeatUnchanged
  \/ OperationWork /\ heartbeatUnchanged
  \/ OperationHeartbeat /\ heartbeatUnchanged

\* ------------------------------------- Snowflake: CopyStageToDestination
\* a column name is kept as the sequence of its characters
\* the partitions of the QRep job and the rows of each: (id, watermark, value)
QRepPartitions == { "p1", "p2" }
QRow(id, wm, val) == [id |-> id, wm |-> wm, val |-> val]
PartitionRows(partition) ==
  CASE partition = "p1" -> { QRow(1, 1, "a"), QRow(2, 2, "a") }
    [] partition = "p2" -> { QRow(1, 2, "b"), QRow(2, 2, "b") }

\* s.config.StagingPath: none (a local file is put to the stage), an S3 path
\* (the stage of the job is external and reads that path), or another scheme
StagingPaths == { "", "s3://bucket/prefix", "gs://bucket/prefix" }

\* the deferred os.Remove is registered when writeToAvroFile returned a path
RemovesLocalFile_never(localFilePath) == FALSE
RemovesLocalFile(localFilePath) == localFilePath # ""

\* a return of SyncQRepRecords: the deferred function removes the local file
SyncQRepReturn(call, err) ==
  /\ sq' = [call EXCEPT !.pc = "done", !.err = err]
  /\ sf' = [sf EXCEPT !.localFiles =
                        IF call.deferred THEN @ \ {call.localFilePath} ELSE @]

\* SyncQRepRecords up to the Avro schema: stream.Schema and getAvroSchema
SyncQRepRecords(StagingPath, partition) ==
  /\ sq.pc = "done"
  /\ \/ /\ sq' = [SyncQRepIdle EXCEPT !.pc = "write", !.called = TRUE,
                                      !.StagingPath = StagingPath,
                                      !.partition = partition]
        /\ UNCHANGED sf
     \/ /\ sq' = [SyncQRepIdle EXCEPT !.called = TRUE, !.StagingPath = StagingPath,
                                      !.partition = partition,
                                      !.err = "failed to get schema"]
        /\ UNCHANGED sf

\* writeToAvroFile: a local file in a fresh temporary directory, or an object
\* of the S3 staging path; a write that fails returns no path, and what it
\* left in its own temporary directory is not followed here
SyncQRepWriteToAvroFile ==
  /\ sq.pc = "write"
  /\ IF sq.StagingPath = ""
     THEN \/ /\ sq' = [sq EXCEPT !.pc = "put", !.localFilePath = sq.partition,
                                  !.written = TRUE,
                                  !.deferred = RemovesLocalFile(sq.partition),
                                  !.numRecords = Cardinality(PartitionRows(sq.partition))]
             /\ sf' = [sf EXCEPT !.localFiles = @ \cup {sq.partition}]
          \/ SyncQRepReturn(sq, "failed to write records to Avro file")
     ELSE IF sq.StagingPath = "s3://bucket/prefix"
     THEN \/ /\ sq' = [sq EXCEPT !.pc = "put", !.written = TRUE,
                                  !.deferred = RemovesLocalFile(""),
                                  !.numRecords = Cardinality(PartitionRows(sq.partition))]
             /\ sf' = [sf EXCEPT !.stage = @ \cup {sq.partition}]
          \/ SyncQRepReturn(sq, "failed to write records to S3")
     ELSE SyncQRepReturn(sq, "unsupported staging path")

\* putFileToStage: nothing for an S3 write, PUT of the local file otherwise;
\* the heartbeat before the PUT can panic
SyncQRepPutFileToStage ==
  /\ sq.pc = "put"
  /\ IF sq.localFilePath = ""
     THEN sq' = [sq EXCEPT !.pc = "meta"] /\ UNCHANGED sf
     ELSE \/ /\ sq' = [sq EXCEPT !.pc = "meta", !.staged = TRUE]
             /\ sf' = [sf EXCEPT !.stage = @ \cup {sq.localFilePath}]
          \/ SyncQRepReturn(sq, "failed to put file to stage")
          \/ SyncQRepReturn(sq, "panic")

\* insertMetadata: the row of the partition
SyncQRepInsertMetadata ==
  /\ sq.pc = "meta"
  /\ \/ /\ sq' = [sq EXCEPT !.pc = "heartbeat"]
        /\ sf' = [sf EXCEPT !.metadata = @ \cup {sq.partition}]
     \/ SyncQRepReturn(sq, "failed to execute metadata insert statement")

\* the last heartbeat, which can panic, and the return of the record count
SyncQRepFinish ==
  /\ sq.pc = "heartbeat"
  /\ \/ SyncQRepReturn(sq, "")
     \/ SyncQRepReturn(sq, "panic")

ColUpperID == << "I", "D" >>
ColLowerID == << "i", "d" >>
ColUpperTS == << "T", "S" >>
ColLowerTS == << "t", "s" >>
ColAbsent == << "n", "o" >>

\* strings.ToLower
ToLowerChar(ch) ==
  IF ch = "I" THEN "i" ELSE IF ch = "D" THEN "d" ELSE IF ch = "T" THEN "t"
  ELSE IF ch = "S" THEN "s" ELSE ch
ToLower(name) == [i \in 1..Len(name) |-> ToLowerChar(name[i])]

\* utils.QuoteIdentifier
QuoteIdentifier(name) == "\"" \o String(name) \o "\""

\* the columns of the destination table, as its schema gives them
AllColsChoices == { << ColUpperID, ColUpperTS >>, << ColLowerID, ColLowerTS >> }

\* the QRep configs: no write mode, append, and upsert on some key columns
WriteModes ==
  { NoWriteMode,
    [nil |-> FALSE, WriteType |-> "APPEND", UpsertKeyColumns |-> << >>] }
  \cup { [nil |-> FALSE, WriteType |-> "UPSERT", UpsertKeyColumns |-> keys] :
           keys \in { << ColLowerID >>, << ColUpperID >>, << ColAbsent >>, << ColLowerID, ColAbsent >> } }
QRepConfigs ==
  { [WriteMode |-> wm, WatermarkColumn |-> w] : wm \in WriteModes, w \in { ColLowerTS, ColUpperTS, ColAbsent } }

\* caseMatchedCols[strings.ToLower(name)]: the column of allCols with that
\* lower-case form (the last one), or "" and not ok
caseMatchedCols(allCols, name) ==
  LET idx == { i \in 1..Len(allCols) : ToLower(allCols[i]) = ToLower(name) }
  IN IF idx = {} THEN [ok |-> FALSE, col |-> << >>]
     ELSE [ok |-> TRUE, col |-> allCols[CHOOSE i \in idx : \A j \in idx : j <= i]]

GenerateMergeCommand(allCols, upsertKeyCols, watermarkCol) ==
  LET keys == [i \in 1..Len(upsertKeyCols) |-> caseMatchedCols(allCols, upsertKeyCols[i]).col]
      wm == caseMatchedCols(allCols, watermarkCol)
  IN IF ~wm.ok
     THEN [NoMergeCommand EXCEPT !.generated = TRUE, !.err = TRUE]
     ELSE [generated |-> TRUE, err |-> FALSE,
           upsertKeys |-> [i \in 1..Len(keys) |-> QuoteIdentifier(keys[i])],
           partitionKeyCols |-> [i \in 1..Len(keys) |-> QuoteIdentifier(keys[i])],
           quotedWMC |-> QuoteIdentifier(wm.col),
           columns |-> [i \in 1..Len(allCols) |-> QuoteIdentifier(allCols[i])]]

\* appendMode: true unless the config has a write mode of type UPSERT
AppendMode_withoutWriteMode(config) == config.WriteMode.nil
AppendMode(config) ==
  IF ~config.WriteMode.nil
  THEN IF config.WriteMode.WriteType = "UPSERT" THEN FALSE ELSE TRUE
  ELSE TRUE

\* copyOpts of CopyStageToDestination: the files a COPY INTO has loaded are
\* removed from the stage
copyOpts == [PURGE |-> TRUE, ON_ERROR |-> "CONTINUE"]

\* the rows of the files of the stage and the stage after a COPY INTO
StagedRows(stage) == UNION { PartitionRows(f) : f \in stage }
StageAfterCopy(stage) == IF copyOpts.PURGE THEN {} ELSE stage

\* the upsert key columns name columns of the destination table; the database
\* rejects a MERGE that names the identifier ""
KeysResolved(allCols, upsertKeyCols) ==
  \A i \in 1..Len(upsertKeyCols) : caseMatchedCols(allCols, upsertKeyCols[i]).ok

\* SELECT * FROM temp QUALIFY ROW_NUMBER() OVER (PARTITION BY key ORDER BY
\* watermark DESC) = 1: one row per key, of the highest watermark; which one of
\* several rows of that watermark is not determined
MergeSources(temp) ==
  LET ids == { r.id : r \in temp }
      top(id) == { r \in temp : r.id = id /\ \A r2 \in temp : r2.id = id => r2.wm <= r.wm }
  IN { { f[id] : id \in ids } : f \in { g \in [ids -> temp] : \A id \in ids : g[id] \in top(id) } }

\* the highest watermark that the merges have been handed, per key
SeenAfter(seen, temp) ==
  [id \in QRepKeys |->
     IF \E r \in temp : r.id = id /\ r.wm > seen[id]
     THEN CHOOSE w \in 1..2 : /\ \E r \in temp : r.id = id /\ r.wm = w
                              /\ \A r \in temp : r.id = id => r.wm <= w
     ELSE seen[id]]

\* MERGE INTO dst USING src ON the key: WHEN MATCHED AND src.wm > dst.wm THEN
\* UPDATE SET every column, WHEN NOT MATCHED THEN INSERT
MergeInto_notOlder(table, src) ==
  { IF \E m \in src : m.id = r.id /\ m.wm >= r.wm
    THEN CHOOSE m \in src : m.id = r.id
    ELSE r : r \in table }
  \cup { m \in src : \A r \in table : r.id # m.id }
MergeInto(table, src) ==
  { IF \E m \in src : m.id = r.id /\ m.wm > r.wm
    THEN CHOOSE m \in src : m.id = r.id
    ELSE r : r \in table }
  \cup { m \in src : \A r \in table : r.id # m.id }

CopyStageToDestination(config, allCols) ==
  /\ q.pc = "done"
  /\ q' = [CopyIdle EXCEPT !.called = TRUE, !.config = config, !.allCols = allCols,
                           !.pc = IF AppendMode(config) THEN "append" ELSE "temp"]
  /\ UNCHANGED sf

\* HandleAppendMode: COPY INTO the destination table
HandleAppendMode ==
  /\ q.pc = "append"
  /\ \/ /\ q' = [q EXCEPT !.pc = "done", !.stmts = Append(@, "COPY INTO dst")]
        /\ sf' = [sf EXCEPT !.table = @ \cup StagedRows(sf.stage),
                            !.stage = StageAfterCopy(@),
                            !.appended = @ \/ sf.stage # {}]
     \/ /\ q' = [q EXCEPT !.pc = "done", !.err = "failed to handle append mode"]
        /\ UNCHANGED sf

\* HandleUpsertMode: CREATE TEMPORARY TABLE, under a fresh random name
UpsertCreateTempTable ==
  /\ q.pc = "temp"
  /\ \/ q' = [q EXCEPT !.pc = "copy", !.stmts = Append(@, "CREATE TEMPORARY TABLE temp")]
     \/ q' = [q EXCEPT !.pc = "done", !.err = "failed to handle upsert mode"]
  /\ UNCHANGED sf

\* HandleUpsertMode: COPY INTO the temporary table
UpsertCopyIntoTemp ==
  /\ q.pc = "copy"
  /\ \/ /\ q' = [q EXCEPT !.pc = "merge", !.stmts = Append(@, "COPY INTO temp"),
                           !.temp = StagedRows(sf.stage)]
        /\ sf' = [sf EXCEPT !.stage = StageAfterCopy(@)]
     \/ /\ q' = [q EXCEPT !.pc = "done", !.err = "failed to handle upsert mode"]
        /\ UNCHANGED sf

\* HandleUpsertMode: the merge command is generated and run
UpsertMerge ==
  /\ q.pc = "merge"
  /\ LET mergeCmd == GenerateMergeCommand(q.allCols, q.config.WriteMode.UpsertKeyColumns,
                                          q.config.WatermarkColumn)
         failed == [q EXCEPT !.pc = "done", !.mergeCmd = mergeCmd,
                             !.err = "failed to handle upsert mode"]
     IN IF mergeCmd.err
        THEN q' = failed /\ UNCHANGED sf
        ELSE IF ~KeysResolved(q.allCols, q.config.WriteMode.UpsertKeyColumns)
        THEN q' = failed /\ UNCHANGED sf
        ELSE \/ /\ q' = [q EXCEPT !.pc = "done", !.mergeCmd = mergeCmd,
                                  !.stmts = Append(@, "MERGE INTO dst")]
                /\ \E src \in MergeSources(q.temp) :
                     sf' = [sf EXCEPT !.table = MergeInto(@, src),
                                      !.seen = SeenAfter(@, q.temp)]
             \/ q' = failed /\ UNCHANGED sf

syncQRepUnchanged ==
  UNCHANGED << meta, raw, dst, supportsMerge, s, n, normHist, wal, slot, p, fails, catalog,
               setup, stream, rawTable, c, txn, h, tick, q, pf, s3 >>

copyUnchanged ==
  UNCHANGED << meta, raw, dst, supportsMerge, s, n, normHist, wal, slot, p, fails, catalog,
               setup, stream, rawTable, c, txn, h, tick, sq, pf, s3 >>

\* the copies of a stage into destination tables, one at a time
CopyNext ==
  \/ (\E config \in QRepConfigs, allCols \in AllColsChoices :
         CopyStageToDestination(config, allCols)) /\ copyUnchanged
  \/ HandleAppendMode /\ copyUnchanged
  \/ UpsertCreateTempTable /\ copyUnchanged
  \/ UpsertCopyIntoTemp /\ copyUnchanged
  \/ UpsertMerge /\ copyUnchanged

\* the configs of the QRep job whose partitions are synced: upsert on the id
\* column with the watermark column of the table or with one the table does
\* not have, and append
SyncedQRepConfigs ==
  { [WriteMode |-> [nil |-> FALSE, WriteType |-> "UPSERT",
                    UpsertKeyColumns |-> << ColLowerID >>],
     WatermarkColumn |-> w] : w \in { ColLowerTS, ColAbsent } }
  \cup { [WriteMode |-> [nil |-> FALSE, WriteType |-> "APPEND", UpsertKeyColumns |-> << >>],
          WatermarkColumn |-> ColLowerTS] }

\* the QRep job on Snowflake: partitions are synced to the stage and the stage
\* is copied into the destination table when no partition is being synced
QRepNext ==
  \/ (\E StagingPath \in StagingPaths, partition \in QRepPartitions :
         SyncQRepRecords(StagingPath, partition)) /\ q.pc = "done" /\ syncQRepUnchanged
  \/ SyncQRepWriteToAvroFile /\ syncQRepUnchanged
  \/ SyncQRepPutFileToStage /\ syncQRepUnchanged
  \/ SyncQRepInsertMetadata /\ syncQRepUnchanged
  \/ SyncQRepFinish /\ syncQRepUnchanged
  \/ (\E config \in SyncedQRepConfigs :
         CopyStageToDestination(config, << ColUpperID, ColUpperTS >>))
     /\ sq.pc = "done" /\ copyUnchanged
  \/ HandleAppendMode /\ copyUnchanged
  \/ UpsertCreateTempTable /\ copyUnchanged
  \/ UpsertCopyIntoTemp /\ copyUnchanged
  \/ UpsertMerge /\ copyUnchanged

Next ==
  \/ (\E req \in Requests : SyncRecords(req)) /\ UNCHANGED flowVars
  \/ SyncTxBegin /\ UNCHANGED flowVars
  \/ SyncCopyFrom /\ UNCHANGED flowVars
  \/ SyncUpdateMetadata /\ UNCHANGED flowVars
  \/ SyncCommit /\ UNCHANGED flowVars
  \/ SyncFail /\ UNCHANGED flowVars
  \/ NormalizeRecords /\ UNCHANGED flowVars
  \/ NormReadNormalizeBatchID /\ UNCHANGED flowVars
  \/ NormReadExists /\ UNCHANGED flowVars
  \/ NormGetUnchangedCols /\ UNCHANGED flowVars
  \/ NormTxBegin /\ UNCHANGED flowVars
  \/ NormVersionCheck /\ UNCHANGED flowVars
  \/ NormSendBatch /\ UNCHANGED flowVars
  \/ NormApproxCounts /\ UNCHANGED flowVars
  \/ NormUpdateMetadata /\ UNCHANGED flowVars
  \/ NormCommit /\ UNCHANGED flowVars
  \/ NormFail /\ UNCHANGED flowVars

\* the flow of one job: the source commits, the caller pulls and syncs, and
\* starts again from the stored offset after every failure
FlowNext ==
  \/ SourceCommit
  \/ FlowGetLastOffset /\ coreUnchanged /\ UNCHANGED fails
  \/ PullRecords(FlowRequest) /\ coreUnchanged /\ Counted(p'.pc = "idle")
  \/ CdcBegin /\ coreUnchanged /\ UNCHANGED fails
  \/ CdcRecord /\ coreUnchanged /\ UNCHANGED fails
  \/ CdcCommit /\ coreUnchanged /\ UNCHANGED fails
  \/ CdcReturn /\ coreUnchanged /\ Counted(p.staging.open)
  \/ PullPostSteps /\ coreUnchanged /\ UNCHANGED fails
  \/ PullUpdateLatestLSN /\ coreUnchanged /\ UNCHANGED fails
  \/ PullFail /\ coreUnchanged /\ Counted(TRUE)
  \/ FlowSyncRecords /\ Counted(s'.resp.status = "err")
  \/ FlowSyncReturned
  \/ SyncTxBegin /\ UNCHANGED flowVars
  \/ SyncCopyFrom /\ Counted(s'.resp.status = "err")
                  /\ UNCHANGED << wal, slot, p, catalog, setup, stream, opsVars >>
  \/ SyncUpdateMetadata /\ UNCHANGED flowVars
  \/ SyncCommit /\ UNCHANGED flowVars
  \/ SyncFail /\ Counted(TRUE) /\ UNCHANGED << wal, slot, p, catalog, setup, stream, opsVars >>

\* one stream of changes, cut into batches at any place, with normalizes at
\* any place between and during the syncs
ChunkNext ==
  \/ ChunkSyncRecords /\ UNCHANGED flowVars
  \/ SyncTxBegin /\ UNCHANGED flowVars
  \/ SyncCopyFrom /\ UNCHANGED flowVars
  \/ SyncUpdateMetadata /\ UNCHANGED flowVars
  \/ SyncCommit /\ UNCHANGED flowVars
  \/ SyncFail /\ UNCHANGED flowVars
  \/ NormalizeRecords /\ UNCHANGED flowVars
  \/ NormReadNormalizeBatchID /\ UNCHANGED flowVars
  \/ NormReadExists /\ UNCHANGED flowVars
  \/ NormGetUnchangedCols /\ UNCHANGED flowVars
  \/ NormTxBegin /\ UNCHANGED flowVars
  \/ NormVersionCheck /\ UNCHANGED flowVars
  \/ NormSendBatch /\ UNCHANGED flowVars
  \/ NormApproxCounts /\ UNCHANGED flowVars
  \/ NormUpdateMetadata /\ UNCHANGED flowVars
  \/ NormCommit /\ UNCHANGED flowVars
  \/ NormFail /\ UNCHANGED flowVars

\* the source of several jobs: replication is set up, slots and publications
\* are dropped out of band, and pulls are started on a quiet source
SourceNext ==
  \/ \E req \in SetupRequests : SetupReplication(req)
  \/ DropSlot
  \/ DropPublication
  \/ FlowGetLastOffset /\ coreUnchanged /\ UNCHANGED fails
  \/ (\E req \in PullRequests : PullRecords(req)) /\ coreUnchanged /\ UNCHANGED fails
  \/ CdcReturn /\ coreUnchanged /\ UNCHANGED fails
  \/ PullFail /\ coreUnchanged /\ UNCHANGED fails
  \/ FlowSyncRecords /\ UNCHANGED fails
  \/ FlowSyncReturned

\* the partitions of the QRep job j_1 are synced to S3, some more than once
S3Next ==
  \/ (\E url \in S3URLs, partitionID \in S3Partitions, records \in S3Streams :
         S3SyncQRepRecords(url, << "j", "_", "1" >>, partitionID, records)) /\ s3Unchanged
  \/ S3WriteToAvroFile /\ s3Unchanged

\* the teardown of the pull side of the job j_1: replication is set up, with
\* or without names of an existing slot and publication, and cleaned up
PullCleanupNext ==
  \/ (\E req \in SetupRequests : SetupReplication(req)) /\ pf.pc = "done"
  \/ PullFlowCleanup(<< "j", "_", "1" >>) /\ pullCleanupUnchanged
  \/ PullFlowCleanupDropPublication /\ pullCleanupUnchanged
  \/ PullFlowCleanupDropSlot /\ pullCleanupUnchanged
  \/ PullFlowCleanupCommit /\ pullCleanupUnchanged

\* a job that is synced and normalized and, at its teardown, cleaned up: the
\* cleanup starts when no sync and no normalize is in flight, and none starts
\* during a cleanup; the stored offset is read at any time
CleanupNext ==
  \/ (\E req \in CleanupRequests : SyncRecords(req)) /\ c.pc = "done" /\ UNCHANGED flowVars
  \/ SyncTxBegin /\ UNCHANGED flowVars
  \/ SyncCopyFrom /\ UNCHANGED flowVars
  \/ SyncUpdateMetadata /\ UNCHANGED flowVars
  \/ SyncCommit /\ UNCHANGED flowVars
  \/ SyncFail /\ UNCHANGED flowVars
  \/ NormalizeRecords /\ c.pc = "done" /\ UNCHANGED flowVars
  \/ NormReadNormalizeBatchID /\ UNCHANGED flowVars
  \/ NormReadExists /\ UNCHANGED flowVars
  \/ NormGetUnchangedCols /\ UNCHANGED flowVars
  \/ NormTxBegin /\ UNCHANGED flowVars
  \/ NormVersionCheck /\ UNCHANGED flowVars
  \/ NormSendBatch /\ UNCHANGED flowVars
  \/ NormApproxCounts /\ UNCHANGED flowVars
  \/ NormUpdateMetadata /\ UNCHANGED flowVars
  \/ NormCommit /\ UNCHANGED flowVars
  \/ NormFail /\ UNCHANGED flowVars
  \/ FlowGetLastOffset /\ coreUnchanged /\ UNCHANGED fails
  \/ SyncFlowCleanup /\ s.pc = "done" /\ n.pc = "done" /\ cleanupUnchanged
  \/ CleanupDropRawTable /\ cleanupUnchanged
  \/ CleanupDeleteMetadata /\ cleanupUnchanged
  \/ CleanupCommit /\ cleanupUnchanged
  \/ CleanupFail /\ cleanupUnchanged

\* the batches synced in the runs that read the stored offset: one whose
\* last checkpoint is later than the checkpoint of its last record, one whose
\* last checkpoint is 0, one of two transactions, one of one transaction, and
\* one without records
OffsetRequests ==
  { RecordBatch(<< InsertRecord("t1", 1, "a", 1) >>, 2),
    RecordBatch(<< InsertRecord("t1", 1, "a", 1) >>, 0),
    RecordBatch(<< InsertRecord("t1", 1, "a", 1), InsertRecord("t2", 1, "b", 2) >>, 3),
    RecordBatch(<< InsertRecord("t1", 1, "a", 3), UpdateRecord("t1", 1, "b", {}, 3),
                   DeleteRecord("t1", 1, 3) >>, 3),
    RecordBatch(<< >>, 2) }

\* the syncs of one job and the reads of its stored offset, in any order
OffsetNext ==
  \/ (\E req \in OffsetRequests : SyncRecords(req)) /\ UNCHANGED flowVars
  \/ SyncTxBegin /\ UNCHANGED flowVars
  \/ SyncCopyFrom /\ UNCHANGED flowVars
  \/ SyncUpdateMetadata /\ UNCHANGED flowVars
  \/ SyncCommit /\ UNCHANGED flowVars
  \/ SyncFail /\ UNCHANGED flowVars
  \/ FlowGetLastOffset /\ coreUnchanged /\ UNCHANGED fails
  \/ PullRecords(FlowRequest) /\ coreUnchanged /\ UNCHANGED fails
  \/ PullFail /\ coreUnchanged /\ UNCHANGED fails

Spec == Init /\ [][Next]_vars

CopySpec == Init /\ [][CopyNext]_vars

QRepSpec == Init /\ [][QRepNext]_vars

PullCleanupSpec == SourceInit /\ [][PullCleanupNext]_vars

S3Spec == Init /\ [][S3Next]_vars

ClockSpec == ClockInit /\ [][FlowNext]_vars

HeartbeatSpec == Init /\ [][HeartbeatNext]_vars

TxSpec == Init /\ [][TxNext]_vars

OffsetSpec == Init /\ [][OffsetNext]_vars

CleanupSpec == Init /\ [][CleanupNext]_vars

ChunkSpec == ChunkInit /\ [][ChunkNext]_vars

SourceSpec == SourceInit /\ [][SourceNext]_vars

\* every retry is eventually made, and the failures of a run are bounded
FairFlowSpec == Init /\ [][FlowNext]_vars /\ WF_vars(FlowNext)

\* ---------------------------------------------------------------- claims
LastSyncedBatch(m) == << m.exists, m.last_offset, m.sync_batch_id >>

\* C1: in every state reachable by interleaving one sync and one normalize,
\* each succeeding or failing at any step, the stored normalize_batch_id is at
\* most the stored sync_batch_id.
C1_NormalizeNotAheadOfSync == meta.normalize_batch_id <= meta.sync_batch_id

\* a normalize has committed, it has caught up with the last sync, and the
\* next sync is about to commit
C1_Witness ==
  /\ Len(normHist) > 0
  /\ meta.normalize_batch_id = meta.sync_batch_id
  /\ s.pc = "commit"

\* C2: at-least-once delivery. Every change committed at the source is
\* eventually in a committed row of the raw table, whatever pulls and syncs
\* fail on the way, when the caller retries from the stored last_offset and
\* the retries eventually succeed.
C2_AtLeastOnceDelivery ==
  \A l \in 1..MaxLSN :
    (wal >= l) ~> (\E i \in 1..Len(raw) : raw[i].cp = l)

\* C3: SyncRecords is all-or-nothing. The raw table, last_offset and
\* sync_batch_id change in no step but the commit of a sync, which adds the
\* rows of the batch and stores the checkpoint and the id of the batch in that
\* one step; a sync that ends in an error ends in a step that changes none.
C3_SyncAllOrNothing ==
  [][ /\ (raw' # raw \/ LastSyncedBatch(meta)' # LastSyncedBatch(meta))
         => /\ s.pc = "commit"
            /\ s'.pc = "done"
            /\ s'.resp.status = "ok"
            /\ raw' = raw \o s.records
            /\ LastSyncedBatch(meta)' = << TRUE, s.lastCP, s.syncBatchID >>
      /\ (s.pc # "done" /\ s'.resp.status = "err")
         => raw' = raw /\ LastSyncedBatch(meta)' = LastSyncedBatch(meta)
    ]_vars

\* a sync has failed after it opened its transaction, on a table that has
\* rows, and neither its checkpoint nor its id is stored
C3_Witness ==
  /\ s.pc = "done"
  /\ s.resp.status = "err"
  /\ s.txOpened
  /\ Len(raw) > 0
  /\ s.lastCP # meta.last_offset
  /\ s.syncBatchID = meta.sync_batch_id + 1
  /\ \A i \in 1..Len(raw) : raw[i].batch_id # s.syncBatchID

\* C4: a normalize that read sync_batch_id = S stores S as normalize_batch_id
\* also when a sync has committed S+1 meanwhile, its statements change no key
\* without a raw row of a batch in (N, S], and the ranges of the normalizes
\* that committed follow each other without gap or overlap from batch 1 up to
\* the stored normalize_batch_id.
C4_NormalizeRangesContiguous ==
  /\ \A i \in 1..Len(normHist) :
       /\ normHist[i].start <= normHist[i].end
       /\ normHist[i].start = (IF i = 1 THEN 1 ELSE normHist[i - 1].end + 1)
       /\ normHist[i].end <= normHist[i].stored
  /\ meta.normalize_batch_id =
       (IF normHist = << >> THEN 0 ELSE normHist[Len(normHist)].end)
  /\ n.pc \in {"counts", "meta", "commit"}
     => \A t \in Tables, k \in Keys :
          (\A i \in 1..Len(raw) :
             ~(/\ raw[i].table = t
               /\ raw[i].data.id = k
               /\ raw[i].batch_id \in (n.normalizeBatchID + 1)..n.syncBatchID))
          => n.txDst[t][k] = dst[t][k]

\* a normalize has committed the range up to S after a sync had committed S+1
C4_Witness ==
  \E i \in 1..Len(normHist) :
    /\ normHist[i].stored = normHist[i].end + 1
    /\ meta.normalize_batch_id = normHist[i].end

\* C5: a successful SyncRecords of a non-empty batch adds exactly len(batch)
\* rows to the raw table, all with the batch id it stores and returns, and
\* changes or removes no row that was there.
C5_SyncAddsBatchRows ==
  [][ /\ Len(raw') >= Len(raw) /\ SubSeq(raw', 1, Len(raw)) = raw
      /\ (s.pc # "done" /\ s'.pc = "done" /\ s'.resp.status = "ok")
         => /\ Len(raw') = Len(raw) + Len(s.req.Records)
            /\ s'.resp.Num = Len(s.req.Records)
            /\ s'.resp.CurrentSyncBatchID = meta'.sync_batch_id
            /\ \A i \in (Len(raw) + 1)..Len(raw') :
                 raw'[i].batch_id = meta'.sync_batch_id
    ]_vars

\* a sync of several records has succeeded on a raw table that had rows
C5_Witness ==
  /\ s.pc = "done"
  /\ s.resp.status = "ok"
  /\ s.resp.Num > 1
  /\ Len(raw) > s.resp.Num
  /\ s.resp.CurrentSyncBatchID = meta.sync_batch_id

\* C6: the stored last_offset of a job never decreases while its row exists.
C6_LastOffsetNeverDecreases ==
  [][ (meta.exists /\ meta'.exists) => meta'.last_offset >= meta.last_offset ]_vars

\* C7: the sync_batch_id changes only in the commit of a successful sync and
\* then grows by exactly one; the batch ids of the raw rows are 1 up to the
\* stored sync_batch_id without gap, in this order, and a failed sync leaves
\* the stored id as it was.
C7_BatchIdsIncreaseByOne ==
  /\ [](/\ {raw[i].batch_id : i \in 1..Len(raw)} = 1..meta.sync_batch_id
        /\ \A i \in 1..Len(raw) : \A j \in i..Len(raw) :
             raw[i].batch_id <= raw[j].batch_id)
  /\ [][ /\ meta'.sync_batch_id # meta.sync_batch_id
            => /\ meta'.sync_batch_id = meta.sync_batch_id + 1
               /\ s'.resp.status = "ok"
               /\ s'.resp.CurrentSyncBatchID = meta'.sync_batch_id
         /\ (s.pc # "done" /\ s'.resp.status = "err")
            => meta'.sync_batch_id = meta.sync_batch_id
       ]_vars

\* the second batch or a later one has been committed
C7_Witness ==
  /\ s.pc = "done"
  /\ s.resp.status = "ok"
  /\ s.resp.CurrentSyncBatchID >= 2
  /\ s.resp.CurrentSyncBatchID = meta.sync_batch_id
  /\ \E i \in 1..Len(raw) : raw[i].batch_id = 1

\* C8: SyncRecords of a batch without records returns 0, 0 and 0 rows in its
\* first step, opens no transaction and leaves the raw table and the metadata
\* as they are, whatever last checkpoint the batch carries.
C8_EmptyBatchIsNoOp ==
  [][ (s.pc = "done" /\ s' # s /\ Len(s'.req.Records) = 0 /\ s'.resp.status # "err")
      => /\ s'.pc = "done"
         /\ s'.resp = SyncResponse(0, 0, 0, 0)
         /\ ~s'.txOpened
         /\ raw' = raw
         /\ meta' = meta
    ]_vars

\* an empty batch with last checkpoint 2 was synced after a batch with
\* another checkpoint
C8_Witness ==
  /\ s.pc = "done"
  /\ s.resp.status = "ok"
  /\ s.req = RecordBatch(<< >>, 2)
  /\ meta.exists
  /\ meta.last_offset # 2
  /\ s.syncBatchID = meta.sync_batch_id + 1

\* C9: NormalizeRecords returns early exactly when the sync batch id S it
\* read equals the normalize batch id N it read or the job has no row; it then
\* returns Done with StartBatchID = N and EndBatchID = S, has opened no
\* transaction and has changed neither the normalized tables nor the metadata.
C9_NormalizeCaughtUp ==
  /\ [](n.pc \in {"cols", "begin", "version", "send", "counts", "meta", "commit"}
        => (n.syncBatchID # n.normalizeBatchID /\ meta.exists))
  /\ [][ (n.pc = "readE" /\ n' # n /\ n'.resp.status # "err")
         => IF n.syncBatchID = n.normalizeBatchID \/ ~meta.exists
            THEN /\ n'.pc = "done"
                 /\ n'.resp = [status |-> "ok", Done |-> TRUE,
                               StartBatchID |-> n.normalizeBatchID,
                               EndBatchID |-> n.syncBatchID]
                 /\ ~n'.txOpened
                 /\ dst' = dst
                 /\ meta' = meta
            ELSE n'.pc = "cols"
       ]_vars

\* a normalize found S = N with S at least 1 and returned without a
\* transaction
C9_Witness ==
  /\ n.pc = "done"
  /\ n.resp.status = "ok"
  /\ ~n.txOpened
  /\ n.resp.EndBatchID >= 1
  /\ n.resp.StartBatchID = n.resp.EndBatchID
  /\ meta.normalize_batch_id = n.resp.EndBatchID

\* the last two normalize calls both succeeded and read the same sync batch
\* id: no sync committed between them
TwoNormalizesNoSyncBetween ==
  /\ n.pc = "done"
  /\ n.resp.status = "ok"
  /\ n.prev.status = "ok"
  /\ n.prev.EndBatchID = n.syncBatchID

\* C10 as stated: the second of two successive normalizes without a sync in
\* between returns start S+1 and end S, and writes nothing.
C10_SecondNormalizeStartsAfterS ==
  TwoNormalizesNoSyncBetween
  => /\ n.resp = [status |-> "ok", Done |-> TRUE,
                  StartBatchID |-> n.syncBatchID + 1, EndBatchID |-> n.syncBatchID]
     /\ ~n.txOpened

\* C10 as amended: the second of two successive successful normalizes without
\* a sync in between returns start S and end S, and writes nothing.
C10_SecondNormalizeStartsAtS ==
  TwoNormalizesNoSyncBetween
  => /\ n.resp = [status |-> "ok", Done |-> TRUE,
                  StartBatchID |-> n.syncBatchID, EndBatchID |-> n.syncBatchID]
     /\ ~n.txOpened

\* a normalize of the batches 1..S, S at least 2, was followed by another
\* normalize with no sync in between
C10_Witness ==
  /\ TwoNormalizesNoSyncBetween
  /\ n.prev.StartBatchID = 1
  /\ n.prev.EndBatchID >= 2

\* C11: a NormalizeRecords that read S > N and succeeds stores exactly the S
\* it read at the start of the call as normalize_batch_id and returns Done
\* with StartBatchID = N + 1 and EndBatchID = S; no step of a normalize
\* changes sync_batch_id or last_offset.
C11_NormalizeStoresReadS ==
  [][ /\ (n.pc # "done" /\ n'.pc = "done" /\ n'.resp.status = "ok"
          /\ n.syncBatchID > n.normalizeBatchID /\ meta.exists)
         => /\ meta'.normalize_batch_id = n.syncBatchID
            /\ n'.resp = [status |-> "ok", Done |-> TRUE,
                          StartBatchID |-> n.normalizeBatchID + 1,
                          EndBatchID |-> n.syncBatchID]
      /\ (n.pc = "done" /\ n'.pc = "readN") => n'.syncBatchID = meta.sync_batch_id
      /\ n' # n
         => /\ meta'.sync_batch_id = meta.sync_batch_id
            /\ meta'.last_offset = meta.last_offset
    ]_vars

\* a normalize of the batches 2..3 has committed on a job with a stored
\* offset
C11_Witness ==
  /\ n.pc = "done"
  /\ n.resp.status = "ok"
  /\ n.txOpened
  /\ n.resp.StartBatchID = 2
  /\ n.resp.EndBatchID = 3
  /\ meta.normalize_batch_id = 3
  /\ meta.last_offset > 0

\* C12: NormalizeRecords is all-or-nothing. The normalized tables and
\* normalize_batch_id change in no step but the commit of a normalize, which
\* installs what its statements wrote and stores S in that one step; a
\* normalize that ends in an error ends in a step that changes neither, and
\* the stored normalize_batch_id is still the N it read, so that the next
\* normalize starts from the same N.
C12_NormalizeAllOrNothing ==
  /\ [][ /\ (dst' # dst \/ meta'.normalize_batch_id # meta.normalize_batch_id)
            => /\ n.pc = "commit"
               /\ n'.pc = "done"
               /\ n'.resp.status = "ok"
               /\ dst' = n.txDst
               /\ meta'.normalize_batch_id = n.syncBatchID
         /\ (n.pc # "done" /\ n'.resp.status = "err")
            => dst' = dst /\ meta' = meta
       ]_vars
  /\ [](n.pc \notin {"done", "readN"} => n.normalizeBatchID = meta.normalize_batch_id)
  /\ []((n.pc = "done" /\ n.resp.status = "err" /\ n.txOpened)
        => n.normalizeBatchID = meta.normalize_batch_id)

\* a normalize whose statements had changed rows has failed, after an earlier
\* normalize had committed, and the range it read is still to be normalized
C12_Witness ==
  /\ n.pc = "done"
  /\ n.resp.status = "err"
  /\ n.txOpened
  /\ n.rowsAffected > 0
  /\ Len(normHist) > 0
  /\ meta.normalize_batch_id = n.normalizeBatchID
  /\ meta.normalize_batch_id < n.syncBatchID

\* the raw rows of batch b, and rows without their batch id
BatchRows(rows, b) == SelectSeq(rows, LAMBDA r : r.batch_id = b)
Content(rows) == [i \in 1..Len(rows) |-> [rows[i] EXCEPT !.batch_id = 0]]

\* batch b repeats the records of an earlier batch
IsReplay(rows, b) ==
  \E a \in 1..(b - 1) : Content(BatchRows(rows, a)) = Content(BatchRows(rows, b))

\* the raw table as it would be had every batch been synced once
WithoutReplays(rows) == SelectSeq(rows, LAMBDA r : ~IsReplay(rows, r.batch_id))

\* the normalized tables after normalizes of the ranges hist[1..i] over rows
RECURSIVE NormalizedOver(_, _, _, _)
NormalizedOver(rows, hist, i, merge) ==
  IF i = 0 THEN EmptyTables
  ELSE LET N == hist[i].start - 1
           S == hist[i].end
       IN NormalizeStatements(NormalizedOver(rows, hist, i - 1, merge), rows,
                              getTableNametoUnchangedCols(rows, S, N), N, S, merge)

AllNormalized ==
  /\ s.pc = "done"
  /\ n.pc = "done"
  /\ meta.exists
  /\ meta.normalize_batch_id = meta.sync_batch_id

\* C14: replaying SyncRecords with a batch that was synced before is a no-op
\* on the normalized tables. Once everything synced is normalized, the
\* tables are what the same normalizes give over the raw table without the
\* rows of the replays, wherever the replay fell: before or after the first
\* copy was normalized, next to it or after later batches.
C14_ReplayIsNoOp ==
  AllNormalized
  => dst = NormalizedOver(WithoutReplays(raw), normHist, Len(normHist), supportsMerge)

\* C16: a normalize that commits leaves no row for a key whose last raw row
\* in its range (N, S] is a delete, wherever the insert of the key is; the
\* rows a sync commits carry _record_type 0, 1, 2 for insert, update, delete
\* in the order of the records of the batch.
C16_DeleteLastRemovesRow ==
  [][ /\ (n.pc = "commit" /\ n'.pc = "done" /\ n'.resp.status = "ok")
         => \A t \in Tables, k \in Keys :
              LET idx == {i \in 1..Len(raw) :
                            /\ raw[i].table = t
                            /\ raw[i].data.id = k
                            /\ raw[i].batch_id \in (n.normalizeBatchID + 1)..n.syncBatchID}
              IN (\E i \in idx : raw[i].rtype = 2 /\ \A j \in idx : j <= i)
                 => ~dst'[t][k].present
      /\ (s.pc = "commit" /\ s'.pc = "done" /\ s'.resp.status = "ok")
         => /\ Len(raw') = Len(raw) + Len(s.req.Records)
            /\ \A i \in 1..Len(s.req.Records) :
                 raw'[Len(raw) + i].rtype =
                   (CASE s.req.Records[i].type = "insert" -> 0
                      [] s.req.Records[i].type = "update" -> 1
                      [] s.req.Records[i].type = "delete" -> 2)
    ]_vars

\* insert, update and delete of one key were synced in one batch and
\* normalized in one range: three raw rows 0, 1, 2 and no destination row
C16_Witness ==
  /\ n.pc = "done"
  /\ n.resp.status = "ok"
  /\ n.txOpened
  /\ \E i \in 1..(Len(raw) - 2) :
       /\ raw[i].rtype = 0 /\ raw[i + 1].rtype = 1 /\ raw[i + 2].rtype = 2
       /\ raw[i].batch_id = raw[i + 2].batch_id
       /\ raw[i].batch_id \in n.resp.StartBatchID..n.resp.EndBatchID
       /\ raw[i].data.id = raw[i + 2].data.id
       /\ \A j \in (i + 3)..Len(raw) : raw[j].batch_id > n.resp.EndBatchID
       /\ ~dst[raw[i].table][raw[i].data.id].present

\* the normalized tables when the whole stream is synced as one batch and
\* normalized by one call
OneBatchOneNormalize(st, merge) ==
  LET rows == BuildRecords(st, [i \in 1..Len(st) |-> 0], 1)
  IN NormalizeStatements(EmptyTables, rows, getTableNametoUnchangedCols(rows, 1, 0),
                         0, 1, merge)

\* C13: once the whole stream is synced and normalized, the normalized
\* tables are those of one batch and one normalize, however the stream was
\* cut into sync batches and wherever the normalize calls fell.
C13_ChunkingIndependent ==
  (AllNormalized /\ Len(raw) = Len(stream))
  => dst = OneBatchOneNormalize(stream, supportsMerge)

\* the table of the source after the first m changes of the stream
RECURSIVE SourceTable(_, _)
SourceTable(st, m) ==
  IF m = 0 THEN EmptyTables
  ELSE LET before == SourceTable(st, m - 1)
           r == st[m]
       IN [before EXCEPT ![r.table][r.items.id] =
             IF r.type = "delete" THEN Absent
             ELSE IF r.type = "update" /\ "big" \in r.toast THEN @
             ELSE Row(r.items.big)]

\* C15: the raw row of an update that leaves the TOAST column big unchanged
\* lists big in its unchanged columns, and when such an update is the last
\* normalized change of a key, the destination row of the key holds for big
\* the value of the source row, whether the insert was normalized in an
\* earlier range or in the same one.
C15_ToastUnchangedPreserved ==
  LET m == Cardinality({i \in 1..Len(raw) : raw[i].batch_id <= meta.normalize_batch_id})
  IN /\ \A i \in 1..Len(raw) :
          (stream[i].type = "update" /\ "big" \in stream[i].toast) => "big" \in raw[i].toast
     /\ \A i \in 1..m :
          (/\ stream[i].type = "update"
           /\ "big" \in stream[i].toast
           /\ \A j \in (i + 1)..m :
                ~(stream[j].table = stream[i].table
                  /\ stream[j].items.id = stream[i].items.id))
          => dst[stream[i].table][stream[i].items.id] =
               SourceTable(stream, m)[stream[i].table][stream[i].items.id]

ExpectedSlotName(job, override) ==
  IF override = "" THEN "peerflow_slot_" \o String(job) ELSE override
ExpectedPublicationName(job, override) ==
  IF override = "" THEN "peerflow_pub_" \o String(job) ELSE override

\* PullRecords has gone through its check of the slot and the publication
PullChecked ==
  /\ p.pc = "check"
  /\ p'.pc # "check"
  /\ p'.err.kind # "error checking for replication slot and publication"

\* C17: a PullRecords whose replication slot does not exist ends with the
\* error "replication slot <name> does not exist" naming the slot of the
\* request, has created no CDC source, returns no batch and leaves the job
\* metadata as it is.
C17_PullWithoutSlotFails ==
  [][ (/\ PullChecked
       /\ ExpectedSlotName(p'.req.FlowJobName, p'.req.OverrideReplicationSlotName)
            \notin catalog.slots)
      => /\ p'.pc = "idle"
         /\ p'.err = [kind |-> "replication slot does not exist",
                      name |-> ExpectedSlotName(p'.req.FlowJobName,
                                                p'.req.OverrideReplicationSlotName)]
         /\ ~p'.cdc.created
         /\ p'.batch.Records = << >>
         /\ meta' = meta
         /\ catalog' = catalog
    ]_vars

\* replication was set up, the slot was dropped out of band, and the pull
\* of the same names has failed naming the slot
C17_Witness ==
  /\ p.pc = "idle"
  /\ p.err.kind = "replication slot does not exist"
  /\ setup.called
  /\ setup.err = NoError
  /\ p.err.name = setup.slotName
  /\ p.publicationName = setup.publicationName
  /\ p.publicationName \in catalog.pubs
  /\ p.err.name \notin catalog.slots

\* C18: a PullRecords whose slot exists and whose publication does not exist
\* returns no error from its checks: it creates the CDC source on the slot
\* with an empty publication name.
C18_PullWithoutPublicationContinues ==
  [][ (/\ PullChecked
       /\ ExpectedSlotName(p'.req.FlowJobName, p'.req.OverrideReplicationSlotName)
            \in catalog.slots
       /\ ExpectedPublicationName(p'.req.FlowJobName, p'.req.OverridePublicationName)
            \notin catalog.pubs)
      => /\ p'.pc = "cdc"
         /\ p'.err = NoError
         /\ p'.cdc = [created |-> TRUE,
                      Slot |-> ExpectedSlotName(p'.req.FlowJobName,
                                                p'.req.OverrideReplicationSlotName),
                      Publication |-> ""]
    ]_vars

\* replication was set up, the publication was dropped, and a pull has
\* returned its batch from a CDC source without a publication
C18_Witness ==
  /\ p.pc = "pulled"
  /\ p.cdc.created
  /\ p.cdc.Publication = ""
  /\ p.cdc.Slot \in catalog.slots
  /\ p.publicationName \notin catalog.pubs
  /\ setup.err = NoError
  /\ setup.publicationName = p.publicationName

\* C19: SetupReplication with a job name that is not one or more of a-z, 0-9
\* and _ returns the error "invalid flow job name", has not queried for the
\* slot or the publication, and leaves the slots and publications of the
\* source as they are.
C19_InvalidJobNameRejected ==
  [][ (setup' # setup /\ setup'.req.FlowJobName \notin {<< "j", "_", "1" >>})
      => /\ setup'.err.kind = "invalid flow job name"
         /\ ~setup'.queried
         /\ setup'.slotName = ""
         /\ catalog' = catalog
    ]_vars

\* the job name j- was refused on a source that has a slot and a publication
C19_Witness ==
  /\ setup.called
  /\ setup.req.FlowJobName = << "j", "-" >>
  /\ setup.err.kind = "invalid flow job name"
  /\ catalog.slots # {}
  /\ catalog.pubs # {}

\* C20: a SetupReplication and a PullRecords with the same job name and the
\* same override values work with the same slot name and the same
\* publication name: peerflow_slot_<job> and peerflow_pub_<job> without an
\* override, the override otherwise, each name on its own.
C20_SetupAndPullAgreeOnNames ==
  (/\ setup.queried
   /\ p.slotName # ""
   /\ p.req.FlowJobName = setup.req.FlowJobName
   /\ p.req.OverrideReplicationSlotName = setup.req.ExistingReplicationSlotName
   /\ p.req.OverridePublicationName = setup.req.ExistingPublicationName)
  => /\ p.slotName = setup.slotName
     /\ p.publicationName = setup.publicationName
     /\ p.slotName = IF p.req.OverrideReplicationSlotName = ""
                     THEN "peerflow_slot_j_1" ELSE p.req.OverrideReplicationSlotName
     /\ p.publicationName = IF p.req.OverridePublicationName = ""
                            THEN "peerflow_pub_j_1" ELSE p.req.OverridePublicationName

\* a setup and a pull of the job j_1 that override the slot name only
C20_Witness ==
  /\ setup.queried
  /\ p.pc = "cdc"
  /\ p.req.FlowJobName = setup.req.FlowJobName
  /\ setup.req.ExistingReplicationSlotName = "my_slot"
  /\ setup.req.ExistingPublicationName = ""
  /\ p.req.OverrideReplicationSlotName = "my_slot"
  /\ p.req.OverridePublicationName = ""
  /\ p.cdc.Slot = "my_slot"
  /\ p.cdc.Publication = "peerflow_pub_j_1"

\* a SyncFlowCleanup has committed
CleanedUp == ~rawTable

\* C21: SyncFlowCleanup drops the raw table and deletes the row of the job in
\* one step (its commit) and a cleanup that ends in an error changes neither;
\* once a cleanup has succeeded, a read of the stored offset gives nil, a
\* NormalizeRecords call returns done without a transaction and without a
\* write, and another cleanup succeeds and changes nothing.
C21_CleanupAllOrNothing ==
  [][ /\ (c' # c)
         => IF c.pc = "commit" /\ c'.pc = "done" /\ ~c'.err
            THEN /\ ~rawTable' /\ raw' = << >> /\ ~meta'.exists /\ dst' = dst
                 /\ CleanedUp => (raw' = raw /\ meta' = meta)
            ELSE rawTable' = rawTable /\ raw' = raw /\ meta' = meta /\ dst' = dst
      /\ (CleanedUp /\ p.pc = "idle" /\ p'.pc = "check") => p'.last.nil
      /\ (CleanedUp /\ n.pc # "done" /\ n'.pc = "done" /\ n'.resp.status = "ok")
         => /\ n'.resp.Done
            /\ ~n'.txOpened
            /\ dst' = dst /\ meta' = meta /\ raw' = raw
    ]_vars

\* a job was synced and normalized, two cleanups have succeeded, and the
\* normalize called after them has returned done
C21_Witness ==
  /\ CleanedUp
  /\ c.calls = 2 /\ c.pc = "done" /\ ~c.err
  /\ normHist # << >>
  /\ n.pc = "done" /\ n.resp.status = "ok" /\ n.resp.Done /\ ~n.txOpened
  /\ n.syncBatchID = 0
  /\ p.pc = "check" /\ p.last.nil

\* C22: GetLastOffset returns nil when the job has no metadata row and when
\* the stored last_offset is 0, and the stored last_offset otherwise.
C22_GetLastOffsetNilOrStored ==
  [][ (p.pc = "idle" /\ p'.pc = "check")
      => IF meta.exists /\ meta.last_offset # 0
         THEN ~p'.last.nil /\ p'.last.Checkpoint = meta.last_offset
         ELSE p'.last.nil
    ]_vars

\* the offset was read as nil from a row that stores 0, and the pull that
\* follows starts at the start of the slot
C22_Witness ==
  /\ p.pc = "cdc"
  /\ p.last.nil
  /\ p.clientXLogPos = 0
  /\ meta.exists
  /\ meta.last_offset = 0
  /\ s.pc = "done"
  /\ s.resp.status = "ok"
  /\ s.resp.CurrentSyncBatchID = 1

\* C30: a SyncRecords of a non-empty batch that succeeds stores the last
\* checkpoint of the batch (its LastCheckPointID, which may be later than the
\* checkpoint of its last record) as last_offset and returns it as the last
\* synced checkpoint, with the checkpoint of the first record as the first
\* synced checkpoint; a read of the stored offset that follows returns it
\* when it is not 0.
C30_SyncStoresBatchLastCheckpoint ==
  [][ /\ (s.pc = "commit" /\ s'.pc = "done" /\ s'.resp.status = "ok")
         => /\ Len(s.req.Records) > 0
            /\ meta'.exists
            /\ meta'.last_offset = s.req.LastCheckPointID
            /\ s'.resp.Last = s.req.LastCheckPointID
            /\ s'.resp.First = s.req.Records[1].cp
      /\ (/\ p.pc = "idle" /\ p'.pc = "check"
          /\ s.pc = "done" /\ s.resp.status = "ok" /\ s.resp.Num > 0
          /\ s.req.LastCheckPointID # 0)
         => p'.last = [nil |-> FALSE, Checkpoint |-> s.req.LastCheckPointID]
    ]_vars

\* a batch of two transactions, the first record at checkpoint 1 and the
\* last at 2, with last checkpoint 3, was synced, and the offset read after
\* it is 3
C30_Witness ==
  /\ s.pc = "done"
  /\ s.resp.status = "ok"
  /\ s.resp.Num = 2
  /\ s.resp.First = 1
  /\ s.resp.Last = 3
  /\ raw[Len(raw)].cp = 2
  /\ meta.last_offset = 3
  /\ p.pc = "check"
  /\ p.last = [nil |-> FALSE, Checkpoint |-> 3]

\* C23: in each transactional operation an error return after Begin leaves
\* the transaction rolled back, and the Rollback that the deferred function
\* runs after a Commit that succeeded, which reports that the transaction is
\* closed, is not logged as an unexpected rollback error.
C23_RollbackOnErrorAndToleratedAfterCommit ==
  (txn.pc = "done" /\ txn.began)
  => IF txn.err
     THEN txn.tx = "rolledback"
     ELSE txn.tx = "committed" /\ txn.deferErr = "pgx.ErrTxClosed" /\ ~txn.logged

\* C24: an operation that records heartbeats and is called outside a
\* workflow, where the heartbeat call panics, ends with its normal result:
\* the error of the step that failed, or success, and never the panic.
C24_HeartbeatPanicSwallowed ==
  (h.op # "" /\ ~h.inWorkflow /\ h.result # "none")
  => h.result = IF h.failed THEN "err" ELSE "ok"

\* C25: a SyncRecords that succeeds has added exactly one raw row per record
\* of the batch, in place: an insert gives record type 0, the items as data
\* and {} as match data; an update gives 1, the new items as data and the
\* old items as match data; a delete gives 2 and the items as data and as
\* match data; every row carries the destination table of its record and
\* the new batch id.
C25_OneRawRowPerRecord ==
  [][ (s.pc = "commit" /\ s'.pc = "done" /\ s'.resp.status = "ok")
      => /\ Len(raw') = Len(raw) + Len(s.req.Records)
         /\ SubSeq(raw', 1, Len(raw)) = raw
         /\ \A i \in 1..Len(s.req.Records) :
              LET r == s.req.Records[i]
                  row == raw'[Len(raw) + i]
              IN /\ row.table = r.table
                 /\ row.batch_id = (IF meta.exists THEN meta.sync_batch_id ELSE 0) + 1
                 /\ row.batch_id = s'.resp.CurrentSyncBatchID
                 /\ row.data = r.items
                 /\ r.type = "insert" => (row.rtype = 0 /\ row.match = EmptyItems)
                 /\ r.type = "update" => (row.rtype = 1 /\ row.match = r.olditems)
                 /\ r.type = "delete" => (row.rtype = 2 /\ row.match = row.data)
                 /\ r.type \in {"insert", "update", "delete"}
    ]_vars

\* a batch of an insert, an update and a delete was synced as the second
\* batch of the job
C25_Witness ==
  /\ s.pc = "done"
  /\ s.resp.status = "ok"
  /\ s.resp.CurrentSyncBatchID = 2
  /\ Len(raw) >= 4
  /\ raw[Len(raw) - 2].rtype = 0 /\ raw[Len(raw) - 2].match = EmptyItems
  /\ raw[Len(raw) - 1].rtype = 1 /\ raw[Len(raw) - 1].match # raw[Len(raw) - 1].data
  /\ raw[Len(raw)].rtype = 2 /\ raw[Len(raw)].match = raw[Len(raw)].data
  /\ \A i \in (Len(raw) - 2)..Len(raw) : raw[i].batch_id = 2

RecordsOfTxn(batch, l) == SelectSeq(batch.Records, LAMBDA r : r.cp = l)

\* C29: a batch that a pull returns holds, of every source transaction, all
\* of its records or none, also when the transaction has more records than
\* max_records; it holds no record of a transaction that has not committed,
\* and its last checkpoint is the commit of the last transaction in it.
C29_BatchNeverSplitsTransaction ==
  (p.pc \in {"post", "pulled"})
  => /\ \A l \in 1..(MaxLSN + 1) :
          /\ RecordsOfTxn(p.batch, l) \in {<< >>, TxnRecords(l)}
          /\ RecordsOfTxn(p.batch, l) # << >> => l <= wal
     /\ \A i \in 1..Len(p.batch.Records) : p.batch.Records[i].cp \in 1..(MaxLSN + 1)
     /\ Len(p.batch.Records) > 0
        => p.batch.LastCheckPointID = p.batch.Records[Len(p.batch.Records)].cp

\* a pull has returned the transaction of three records as one batch, more
\* than max_records, with first and last checkpoint the same
C29_Witness ==
  /\ p.pc = "pulled"
  /\ Len(p.batch.Records) = 3
  /\ Len(p.batch.Records) > MaxRecords
  /\ p.batch.Records = TxnRecords(3)
  /\ p.batch.Records[1].cp = p.batch.LastCheckPointID
  /\ ~p.staging.open

\* C27: in a merge command that GenerateMergeCommand gives, every upsert
\* key column and the watermark column is the quoted identifier of a column
\* of allCols that equals the configured name up to case; so a configured
\* name without such a column gives no command.
C27_MergeUsesDestinationIdentifiers ==
  (q.mergeCmd.generated /\ ~q.mergeCmd.err)
  => /\ Len(q.mergeCmd.upsertKeys) = Len(q.config.WriteMode.UpsertKeyColumns)
     /\ \A i \in 1..Len(q.config.WriteMode.UpsertKeyColumns) :
          \E j \in 1..Len(q.allCols) :
            /\ ToLower(q.allCols[j]) = ToLower(q.config.WriteMode.UpsertKeyColumns[i])
            /\ q.mergeCmd.upsertKeys[i] = "\"" \o String(q.allCols[j]) \o "\""
            /\ q.mergeCmd.partitionKeyCols[i] = q.mergeCmd.upsertKeys[i]
     /\ \E j \in 1..Len(q.allCols) :
          /\ ToLower(q.allCols[j]) = ToLower(q.config.WatermarkColumn)
          /\ q.mergeCmd.quotedWMC = "\"" \o String(q.allCols[j]) \o "\""

\* C28: a CopyStageToDestination that succeeds has run one write path: the
\* COPY INTO the destination table when the config has no write mode or a
\* write type other than UPSERT, and the temporary table, the COPY INTO it
\* and the MERGE when the write type is UPSERT; without a write mode the
\* only error is that of the append path.
C28_ExactlyOneWritePath ==
  (q.called /\ q.pc = "done")
  => /\ q.err = ""
        => q.stmts = IF ~q.config.WriteMode.nil /\ q.config.WriteMode.WriteType = "UPSERT"
                     THEN << "CREATE TEMPORARY TABLE temp", "COPY INTO temp",
                             "MERGE INTO dst" >>
                     ELSE << "COPY INTO dst" >>
     /\ (q.config.WriteMode.nil \/ q.config.WriteMode.WriteType # "UPSERT")
        => /\ q.err \in {"", "failed to handle append mode"}
           /\ ~q.mergeCmd.generated
           /\ \A i \in 1..Len(q.stmts) : q.stmts[i] = "COPY INTO dst"

\* copies have succeeded for a config of write type APPEND
C28_Witness ==
  /\ q.called /\ q.pc = "done" /\ q.err = ""
  /\ ~q.config.WriteMode.nil
  /\ q.config.WriteMode.WriteType = "APPEND"
  /\ q.stmts = << "COPY INTO dst" >>

\* C31: the normalize that advances normalize_batch_id from N to S issues the
\* normalization statements of every destination table that has a raw row with
\* batch id in (N, S], also of a table whose rows in the range list no
\* unchanged TOAST column, and the committed destination is the result of
\* those statements.
C31_EveryTableInRangeNormalized ==
  [][ (n.pc = "commit" /\ n'.pc = "done" /\ n'.resp.status = "ok")
      => \A t \in Tables :
           (\E i \in 1..Len(raw) :
               /\ raw[i].table = t
               /\ raw[i].batch_id > n.normalizeBatchID
               /\ raw[i].batch_id <= meta'.normalize_batch_id)
           => /\ n.cols[t].has
              /\ dst'[t] = generateNormalizeStatements(dst, raw, t, n.normalizeBatchID,
                                                       meta'.normalize_batch_id,
                                                       supportsMerge)
    ]_vars

\* a normalize committed a range in which t1 has one insert and no unchanged
\* TOAST column, and the row is in the destination
C31_Witness ==
  /\ n.pc = "done" /\ n.resp.status = "ok" /\ normHist # << >>
  /\ n.cols["t1"].has /\ n.cols["t1"].toast = {}
  /\ \E i \in 1..Len(raw) : raw[i].table = "t1" /\ raw[i].rtype = 0
                             /\ raw[i].batch_id = meta.normalize_batch_id
  /\ dst["t1"][1].present

\* C32: for the same raw rows in (N, S] and the same destination, the MERGE
\* form and the fallback form of the normalization statements leave every
\* destination table with the same contents.
C32_MergeAndFallbackAgree ==
  [][ (n.pc = "send" /\ n'.pc \in {"counts", "meta"})
      => \A t \in Tables :
           n.cols[t].has
           => generateNormalizeStatements(dst, raw, t, n.normalizeBatchID,
                                          n.syncBatchID, TRUE)
              = generateNormalizeStatements(dst, raw, t, n.normalizeBatchID,
                                            n.syncBatchID, FALSE)
    ]_vars

\* C33: in QRep upsert mode a MERGE applies, per upsert key, only a staged row
\* of the highest watermark; it overwrites the destination row of the key only
\* when that watermark is strictly greater than the row's, and inserts the row
\* of a key the destination does not have. So, while the destination is
\* written by upserts only, the watermark of a destination row never
\* decreases and is the highest watermark the merges were handed for its key.
C33_UpsertKeepsHighestWatermark ==
  [][ /\ (q.pc = "merge" /\ q'.pc = "done" /\ q'.err = "" /\ ~sf.appended)
         => \A id \in QRepKeys :
              LET staged == { r \in q.temp : r.id = id }
                  tops == { r \in staged : \A r2 \in staged : r2.wm <= r.wm }
                  old == { r \in sf.table : r.id = id }
                  new == { r \in sf'.table : r.id = id }
              IN IF staged = {} THEN new = old
                 ELSE IF old = {} THEN \E m \in tops : new = {m}
                 ELSE \E r \in old :
                        /\ old = {r}
                        /\ IF \E m \in tops : m.wm > r.wm
                           THEN \E m \in tops : new = {m}
                           ELSE new = {r}
      /\ \A r \in sf.table : \E r2 \in sf'.table : r2.id = r.id /\ r2.wm >= r.wm
      /\ ~sf'.appended
         => /\ \A r \in sf'.table : r.wm = sf'.seen[r.id]
            /\ \A id \in QRepKeys :
                 sf'.seen[id] > 0 => \E r \in sf'.table : r.id = id
    ]_vars

\* after a merge of partition p1, a merge that was handed partition p2 alone
\* has overwritten the row of key 1 (watermark 1 by 2) and has kept the row of
\* key 2, whose watermark the staged row only equals
C33_Witness ==
  /\ q.pc = "done" /\ q.err = "" /\ ~sf.appended
  /\ q.stmts = << "CREATE TEMPORARY TABLE temp", "COPY INTO temp", "MERGE INTO dst" >>
  /\ q.temp = PartitionRows("p2")
  /\ sf.table = { QRow(1, 2, "b"), QRow(2, 2, "a") }

\* C34: in QRep upsert mode staged rows are never lost: when HandleUpsertMode
\* fails after the COPY INTO the temporary table, the rows it loaded are still
\* in files of the stage, for the retry of CopyStageToDestination to merge.
C34_FailedUpsertKeepsStagedFiles ==
  [][ (q.pc = "merge" /\ q'.pc = "done" /\ q'.err # "")
      => q.temp \subseteq StagedRows(sf'.stage)
    ]_vars

\* C35: Snowflake SyncQRepRecords inserts the metadata row of the partition
\* only after the Avro file was written and, for a local file, put to the
\* stage; a call whose write or staging fails inserts no metadata row; and the
\* local file that was written is gone on every return after it.
C35_MetadataAfterStagingAndFileRemoved ==
  [][ /\ sf'.metadata # sf.metadata
         => /\ sq.pc = "meta" /\ sq.written
            /\ sq.partition \in sf.stage
            /\ sq.localFilePath # "" => sq.staged
            /\ sf'.metadata = sf.metadata \cup {sq.partition}
      /\ (sq.pc \in {"write", "put"} /\ sq'.pc = "done")
         => sf'.metadata = sf.metadata
      /\ (sq.pc # "done" /\ sq'.pc = "done" /\ sq.localFilePath # "")
         => /\ sq.written
            /\ sq.localFilePath \notin sf'.localFiles
    ]_vars

\* partition p2 was synced and has its metadata row; the sync of p1 wrote a
\* local file and failed to put it to the stage: no row for p1, no local file
C35_Witness ==
  /\ sq.pc = "done" /\ sq.err = "failed to put file to stage"
  /\ sq.partition = "p1" /\ sq.localFilePath = "p1" /\ sq.written /\ ~sq.staged
  /\ sf.metadata = {"p2"} /\ "p2" \in sf.stage
  /\ sf.localFiles = {}

\* C36 (as stated): PullRecords returns a batch with records only after both
\* the approximate row count and the update of the latest LSN at the source,
\* and an empty batch without either.
C36_BatchOnlyAfterCountsAndLSNUpdate ==
  p.pc = "pulled"
  => IF Len(p.batch.Records) > 0
     THEN p.counted /\ p.lsnUpdated
     ELSE ~p.counted /\ ~p.lsnUpdated

\* C36 (amended): PullRecords queries the approximate row count only for a
\* batch with records, and updates the latest LSN at the source only for such
\* a batch and when the context carries a mirror monitor; it returns the batch
\* when the calls it made succeeded, an empty batch without any of them, and
\* an error without a batch when one of them fails.
C36_PostStepsOnlyForRecordsAndMonitor ==
  [][ /\ p'.pc = "pulled" /\ p.pc # "pulled"
         => IF Len(p'.batch.Records) > 0
            THEN p'.counted /\ (p'.lsnUpdated <=> p'.monitor)
            ELSE ~p'.counted /\ ~p'.lsnUpdated
      /\ (p.pc \in {"post", "lsn"} /\ p'.pc \notin {"post", "lsn", "pulled"})
         => /\ p'.pc = "idle" /\ p'.err # NoError
            /\ p'.batch = RecordBatch(<< >>, 0)
    ]_vars

\* a batch with records was returned after the count and, the context having
\* a mirror monitor, after the update of the latest LSN
C36_Witness ==
  /\ p.pc = "pulled" /\ Len(p.batch.Records) > 0
  /\ p.counted /\ p.monitor /\ p.lsnUpdated

\* C37: when PullFlowCleanup succeeds after a successful SetupReplication of
\* the same job, the slot and the publication that SetupReplication worked
\* with, overrides included, do not exist; and a PullFlowCleanup that fails
\* has dropped neither the publication nor the slot.
C37_CleanupDropsWhatSetupUsed ==
  [][ (pf.pc # "done" /\ pf'.pc = "done")
      => IF pf'.err = NoError
         THEN (setup.called /\ setup.err = NoError /\ setup.req.FlowJobName = pf.jobName)
              => /\ setup.slotName \notin catalog'.slots
                 /\ setup.publicationName \notin catalog'.pubs
         ELSE catalog' = pf.before
    ]_vars

\* the key the object of a partition of job j_1 is to have under a URL
ExpectedS3Key(url, partitionID) ==
  (IF Len(url) = 8 THEN "x" ELSE "x/y") \o "/j_1/" \o String(partitionID) \o ".avro"

\* C38: S3 SyncQRepRecords writes a partition to the key
\* <prefix>/<job name>/<partition id>.avro: a sync of a partition leaves one
\* object of that key, with the records of this sync, and no other object is
\* touched; two partitions of one job never have the same key; and a call
\* that ends in an error returns 0 records.
C38_OneObjectPerPartition ==
  [][ /\ (s3.pc = "write" /\ s3'.pc = "done" /\ s3'.err = "")
         => LET key == ExpectedS3Key(s3.url, s3.partitionID)
                at(objects) == { ob \in objects : ob.Bucket = "b" /\ ob.key = key }
            IN /\ \E ob \in s3'.objects :
                    /\ at(s3'.objects) = {ob}
                    /\ ob.partitionID = s3.partitionID /\ ob.records = s3.stream
               /\ s3'.objects \ at(s3'.objects) = s3.objects \ at(s3.objects)
               /\ s3'.numRecords = s3.stream
      /\ \A ob1, ob2 \in s3'.objects :
           (ob1.Bucket = ob2.Bucket /\ ob1.key = ob2.key)
           => (ob1.jobName = ob2.jobName /\ ob1.partitionID = ob2.partitionID)
      /\ (s3'.pc = "done" /\ s3'.err # "")
         => s3'.numRecords = 0
    ]_vars

\* partition p1 was synced twice under one URL, with one record and then with
\* two, and partition p2 once: one object each, p1 with the two records
C38_Witness ==
  /\ s3.pc = "done" /\ s3.err = "" /\ s3.numRecords = 2
  /\ s3.partitionID = << "p", "1" >>
  /\ s3.objects =
       { [Bucket |-> "b", key |-> "x/j_1/p1.avro", jobName |-> << "j", "_", "1" >>,
          partitionID |-> << "p", "1" >>, records |-> 2],
         [Bucket |-> "b", key |-> "x/j_1/p2.avro", jobName |-> << "j", "_", "1" >>,
          partitionID |-> << "p", "2" >>, records |-> 1] }

====
